---- MODULE Spec2Model ----
(***************************************************************************)
(* Model of the KPI scorecard pipeline: the formatters and date helpers,   *)
(* the record parsers and cleaners, the integrator with its pre-flight     *)
(* validation, and the KPI engine (kpiCalculator).                         *)
(*                                                                         *)
(* Numbers.  JavaScript numbers are modelled exactly: money and counts are *)
(* integers, a quotient is a reduced fraction [num, den], and the two      *)
(* values a division by zero produces are NaN (0/0) and Infinity (n/0).    *)
(* Dates.  A Date is its timestamp, an integer number of clock ticks;      *)
(* DayTicks ticks make one calendar day.                                   *)
(* Text.  A string is the sequence of its characters; a null/undefined     *)
(* cell is the value NullText.                                             *)
(***************************************************************************)
EXTENDS Integers, Sequences, FiniteSets, TLC

VARIABLES
    opportunities,   \* ProcessedOpportunity[] handed to the KPI engine
    lineItems,       \* ProcessedLineItem[]
    jobTimes,        \* ProcessedJobTime[]
    appointments,    \* ProcessedAppointment[]
    weekStart,       \* the window, as timestamps
    weekEnd,
    technician,      \* argument of the last calculateTechnicianKPIs call
    kpis,            \* what that call returned
    allKpis,         \* what the last calculateAllTechnicianKPIs call returned
    call,            \* the last call of a formatter or date helper
    files,           \* UploadedFiles
    parses,          \* the four parse promises of processAndIntegrateFiles
    integration,     \* the promise of processAndIntegrateFiles
    validation,      \* the run of validateUploadedFiles
    state,           \* AppState, the state of useReducer(appReducer, ...)
    fileStates,      \* the files FileUploader holds, by source
    validationErrors, \* AppContent's validationErrors
    dataSummary,     \* AppContent's dataSummary
    validations,     \* the validateAllFiles calls not yet settled
    runs,            \* the processFiles runs awaiting processAndIntegrateFiles
    effectDue,       \* a render is committed and its effect has not run
    started,         \* processFiles runs that went past the files test
    changes          \* file and week changes made by the user

pipelineVars == <<call, files, parses, integration, validation>>

appVars == <<state, fileStates, validationErrors, dataSummary, validations,
             runs, effectDue, started, changes>>

vars == <<opportunities, lineItems, jobTimes, appointments,
          weekStart, weekEnd, technician, kpis, allKpis,
          call, files, parses, integration, validation,
          state, fileStates, validationErrors, dataSummary, validations,
          runs, effectDue, started, changes>>

inputs == <<opportunities, lineItems, jobTimes, appointments, weekStart, weekEnd>>

-----------------------------------------------------------------------------
(* Bounds of the checked input space *)

MaxRecords == 3      \* records in the four collections of one call
MaxSourceRecords == 2 \* records in the collections one KPI reads
MaxJobTimes == 3     \* job-time records of one call
MaxDay == 3          \* calendar days 0..MaxDay
DayTicks == 2        \* clock ticks per calendar day

NoCall == "no call yet"

-----------------------------------------------------------------------------
(* JavaScript number arithmetic *)

RECURSIVE GCD(_, _)
GCD(a, b) == IF b = 0 THEN a ELSE GCD(b, a % b)

NaN == [num |-> 0, den |-> 0]
Infinity == [num |-> 1, den |-> 0]

\* a / b for integers a >= 0, b >= 0, as JavaScript's `/` yields it
Divide(a, b) ==
    IF b = 0 THEN (IF a = 0 THEN NaN ELSE Infinity)
    ELSE LET g == GCD(a, b) IN [num |-> a \div g, den |-> b \div g]

\* q * k for a quotient q and an integer k >= 0
Times(q, k) ==
    IF q.den = 0 THEN (IF q = NaN \/ k = 0 THEN NaN ELSE Infinity)
    ELSE Divide(q.num * k, q.den)

Number(n) == [num |-> n, den |-> 1]

IsNaN(q) == q = NaN

-----------------------------------------------------------------------------
(* Array helpers: reduce (filter is SelectSeq) *)

RECURSIVE SumRevenue(_)
\* reduce((sum, r) => sum + r.revenue, 0)
SumRevenue(s) == IF s = <<>> THEN 0 ELSE SumRevenue(Tail(s)) + Head(s).revenue

RECURSIVE SumEfficiency(_)
\* reduce((total, efficiency) => total + efficiency, 0)
SumEfficiency(s) == IF s = <<>> THEN 0 ELSE SumEfficiency(Tail(s)) + Head(s).jobEfficiency

-----------------------------------------------------------------------------
(* dateHelpers *)

\* faulty variant: the end of the window is exclusive
isDateInWeekRange_Exclusive(date, ws, we) == date >= ws /\ date < we

isDateInWeekRange(date, ws, we) == date >= ws /\ date <= we

-----------------------------------------------------------------------------
(* formatters: keyword matching *)

NullText == <<"<null>">>

UpperToLower ==
    "A" :> "a" @@ "B" :> "b" @@ "C" :> "c" @@ "D" :> "d" @@ "E" :> "e" @@
    "F" :> "f" @@ "G" :> "g" @@ "H" :> "h" @@ "I" :> "i" @@ "J" :> "j" @@
    "K" :> "k" @@ "L" :> "l" @@ "M" :> "m" @@ "N" :> "n" @@ "O" :> "o" @@
    "P" :> "p" @@ "Q" :> "q" @@ "R" :> "r" @@ "S" :> "s" @@ "T" :> "t" @@
    "U" :> "u" @@ "V" :> "v" @@ "W" :> "w" @@ "X" :> "x" @@ "Y" :> "y" @@
    "Z" :> "z"

toLowerCase(text) ==
    [i \in 1..Len(text) |->
        IF text[i] \in DOMAIN UpperToLower THEN UpperToLower[text[i]] ELSE text[i]]

\* String.prototype.includes
includes(text, part) ==
    \E i \in 0..(Len(text) - Len(part)) :
        \A j \in 1..Len(part) : text[i + j] = part[j]

getHydroJettingKeywords ==
    << <<"h", "y", "d", "r", "o">>,
       <<"j", "e", "t", "t", "i", "n", "g">>,
       <<"h", "i", "g", "h", " ", "p", "r", "e", "s", "s", "u", "r", "e">>,
       <<"p", "r", "e", "s", "s", "u", "r", "e", " ", "w", "a", "s", "h">> >>

getDescalingKeywords ==
    << <<"d", "e", "s", "c", "a", "l">>,
       <<"s", "c", "a", "l", "e", " ", "r", "e", "m", "o", "v", "a", "l">>,
       <<"c", "a", "s", "t", " ", "i", "r", "o", "n", " ", "p", "i", "p", "e",
         " ", "d", "e", "s", "c", "a", "l", "i", "n", "g">>,
       <<"d", "e", "s", "c", "a", "l", "i", "n", "g">> >>

getWaterHeaterKeywords ==
    << <<"w", "a", "t", "e", "r", " ", "h", "e", "a", "t", "e", "r">>,
       <<"h", "o", "t", " ", "w", "a", "t", "e", "r">>,
       <<"h", "e", "a", "t", "e", "r", " ", "i", "n", "s", "t", "a", "l", "l">>,
       <<"h", "e", "a", "t", "e", "r", " ", "r", "e", "p", "l", "a", "c", "e",
         "m", "e", "n", "t">> >>

\* faulty variant: the line item is matched without lower-casing it
containsServiceKeywords_CaseSensitive(lineItem, keywords) ==
    IF lineItem = NullText \/ lineItem = <<>> THEN FALSE
    ELSE \E k \in 1..Len(keywords) : includes(lineItem, toLowerCase(keywords[k]))

containsServiceKeywords(lineItem, keywords) ==
    IF lineItem = NullText \/ lineItem = <<>> THEN FALSE
    ELSE LET lowerLineItem == toLowerCase(lineItem)
         IN  \E k \in 1..Len(keywords) : includes(lowerLineItem, toLowerCase(keywords[k]))

-----------------------------------------------------------------------------
(* kpiCalculator *)

\* faulty variant: only the revenue of the completed jobs is summed
calculateAverageTicketValue_CompletedRevenue(opps, appts) ==
    LET isWon(opp) == opp.status = "Won"
        isCompleted(appt) == appt.apptStatus = "Completed"
        completedJobs == Len(SelectSeq(opps, isWon)) + Len(SelectSeq(appts, isCompleted))
        totalRevenue == SumRevenue(SelectSeq(opps, isWon)) + SumRevenue(SelectSeq(appts, isCompleted))
    IN  IF completedJobs = 0 THEN Number(0)
        ELSE Divide(totalRevenue, completedJobs)

calculateAverageTicketValue(opps, appts) ==
    LET isWon(opp) == opp.status = "Won"
        isCompleted(appt) == appt.apptStatus = "Completed"
        completedJobs == Len(SelectSeq(opps, isWon)) + Len(SelectSeq(appts, isCompleted))
        totalRevenue == SumRevenue(opps) + SumRevenue(appts)
    IN  IF completedJobs = 0 THEN Number(0)
        ELSE Divide(totalRevenue, completedJobs)

\* faulty variant: the empty-population guard is missing
calculateJobCloseRate_NoGuard(opps) ==
    LET isWon(opp) == opp.status = "Won"
        wonJobs == Len(SelectSeq(opps, isWon))
    IN  Times(Divide(wonJobs, Len(opps)), 100)

\* faulty variant: every opportunity that is not Lost counts as won
calculateJobCloseRate_NotLost(opps) ==
    LET isWon(opp) == opp.status # "Lost"
        wonJobs == Len(SelectSeq(opps, isWon))
    IN  IF Len(opps) = 0 THEN Number(0)
        ELSE Times(Divide(wonJobs, Len(opps)), 100)

calculateJobCloseRate(opps) ==
    LET isWon(opp) == opp.status = "Won"
        wonJobs == Len(SelectSeq(opps, isWon))
    IN  IF Len(opps) = 0 THEN Number(0)
        ELSE Times(Divide(wonJobs, Len(opps)), 100)

\* faulty variant: the appointments' revenue is left out
calculateWeeklyRevenue_OpportunitiesOnly(opps, appts) ==
    LET opportunitiesRevenue == SumRevenue(opps)
    IN  opportunitiesRevenue

calculateWeeklyRevenue(opps, appts) ==
    LET opportunitiesRevenue == SumRevenue(opps)
        appointmentsRevenue == SumRevenue(appts)
    IN  opportunitiesRevenue + appointmentsRevenue

\* faulty variant: zero-valued records stay in the denominator
calculateJobEfficiency_AllRecords(jobs) ==
    LET isValid(job) == job.jobEfficiency > 0
        validEfficiencies == SelectSeq(jobs, isValid)
    IN  IF Len(validEfficiencies) = 0 THEN Number(0)
        ELSE Divide(SumEfficiency(validEfficiencies), Len(jobs))

calculateJobEfficiency(jobs) ==
    LET isValid(job) == job.jobEfficiency > 0
        validEfficiencies == SelectSeq(jobs, isValid)
    IN  IF Len(validEfficiencies) = 0 THEN Number(0)
        ELSE Divide(SumEfficiency(validEfficiencies), Len(validEfficiencies))

\* faulty variant: memberships sold are counted over all opportunities
calculateMembershipWinRate_AllSold(opps) ==
    LET isMembershipOpportunity(opp) == opp.membershipOpportunity
        isMembershipSold(opp) == opp.membershipSold
        membershipOpportunities == SelectSeq(opps, isMembershipOpportunity)
        membershipsSold == Len(SelectSeq(opps, isMembershipSold))
    IN  IF Len(membershipOpportunities) = 0 THEN Number(0)
        ELSE Times(Divide(membershipsSold, Len(membershipOpportunities)), 100)

calculateMembershipWinRate(opps) ==
    LET isMembershipOpportunity(opp) == opp.membershipOpportunity
        isMembershipSold(opp) == opp.membershipSold
        membershipOpportunities == SelectSeq(opps, isMembershipOpportunity)
        membershipsSold == Len(SelectSeq(membershipOpportunities, isMembershipSold))
    IN  IF Len(membershipOpportunities) = 0 THEN Number(0)
        ELSE Times(Divide(membershipsSold, Len(membershipOpportunities)), 100)

calculateHydroJettingJobsSold(items) ==
    LET matches(item) == containsServiceKeywords(item.lineItem, getHydroJettingKeywords)
    IN  Len(SelectSeq(items, matches))

calculateDescalingJobsSold(items) ==
    LET matches(item) == containsServiceKeywords(item.lineItem, getDescalingKeywords)
    IN  Len(SelectSeq(items, matches))

calculateWaterHeaterJobsSold(items) ==
    LET matches(item) == containsServiceKeywords(item.lineItem, getWaterHeaterKeywords)
    IN  Len(SelectSeq(items, matches))

\* the four filters of calculateTechnicianKPIs
techOpportunities(t, opps, ws, we) ==
    LET keep(opp) == opp.technician = t /\ isDateInWeekRange(opp.date, ws, we)
    IN  SelectSeq(opps, keep)

\* faulty variant: the line items are not filtered by date
techLineItems_AnyDate(t, items, ws, we) ==
    LET keep(item) == item.technician = t
    IN  SelectSeq(items, keep)

techLineItems(t, items, ws, we) ==
    LET keep(item) == item.technician = t /\ isDateInWeekRange(item.invoiceDate, ws, we)
    IN  SelectSeq(items, keep)

techJobTimes(t, jobs, ws, we) ==
    LET keep(job) == job.technician = t /\ isDateInWeekRange(job.firstAppointment, ws, we)
    IN  SelectSeq(jobs, keep)

techAppointments(t, appts, ws, we) ==
    LET keep(appt) == appt.technician = t /\ isDateInWeekRange(appt.scheduledFor, ws, we)
    IN  SelectSeq(appts, keep)

calculateTechnicianKPIs(t, opps, items, jobs, appts, ws, we) ==
    LET tOpps == techOpportunities(t, opps, ws, we)
        tItems == techLineItems(t, items, ws, we)
        tJobs == techJobTimes(t, jobs, ws, we)
        tAppts == techAppointments(t, appts, ws, we)
    IN  [ technician           |-> t,
          averageTicketValue   |-> calculateAverageTicketValue(tOpps, tAppts),
          jobCloseRate         |-> calculateJobCloseRate(tOpps),
          weeklyRevenue        |-> calculateWeeklyRevenue(tOpps, tAppts),
          jobEfficiency        |-> calculateJobEfficiency(tJobs),
          membershipWinRate    |-> calculateMembershipWinRate(tOpps),
          hydroJettingJobsSold |-> calculateHydroJettingJobsSold(tItems),
          descalingJobsSold    |-> calculateDescalingJobsSold(tItems),
          waterHeaterJobsSold  |-> calculateWaterHeaterJobsSold(tItems) ]

RECURSIVE addAll_Front(_, _)
\* faulty variant: a new name is put in front of the names seen so far
addAll_Front(names, records) ==
    IF records = <<>> THEN names
    ELSE LET name == Head(records).technician
             seen == \E i \in 1..Len(names) : names[i] = name
         IN  addAll_Front(IF seen THEN names ELSE <<name>> \o names, Tail(records))

RECURSIVE addAll(_, _)
\* records.forEach(r => technicianNames.add(r.technician)): a Set keeps
\* its elements in insertion order, here a sequence without repetition
addAll(names, records) ==
    IF records = <<>> THEN names
    ELSE LET name == Head(records).technician
             seen == \E i \in 1..Len(names) : names[i] = name
         IN  addAll(IF seen THEN names ELSE Append(names, name), Tail(records))

technicianNameSet(opps, items, jobs, appts) ==
    addAll(addAll(addAll(addAll(<<>>, opps), items), jobs), appts)

calculateAllTechnicianKPIs(opps, items, jobs, appts, ws, we) ==
    LET technicianNames == technicianNameSet(opps, items, jobs, appts)
    IN  [i \in 1..Len(technicianNames) |->
            calculateTechnicianKPIs(technicianNames[i], opps, items, jobs, appts, ws, we)]

-----------------------------------------------------------------------------
(* The pipeline before anything is uploaded or called *)

Sources == {"opportunities", "lineItems", "jobTimes", "appointments"}

NoCallYet == [fn |-> "none", arg |-> "none", ret |-> "none"]

PipelineIdle ==
    /\ call = NoCallYet
    /\ files = "none"
    /\ parses = "none"
    /\ integration = "none"
    /\ validation = "none"

\* the app is not mounted
AppIdle ==
    /\ state = "none"
    /\ fileStates = "none"
    /\ validationErrors = "none"
    /\ dataSummary = "none"
    /\ validations = "none"
    /\ runs = "none"
    /\ effectDue = FALSE
    /\ started = 0
    /\ changes = 0

-----------------------------------------------------------------------------
(* The calls of the KPI engine *)

Technicians == {"Jake Harter", "Aaron McDaniel"}

CalculateTechnicianKPIs(t) ==
    /\ technician' = t
    /\ kpis' = calculateTechnicianKPIs(t, opportunities, lineItems, jobTimes,
                                       appointments, weekStart, weekEnd)
    /\ UNCHANGED <<inputs, allKpis, pipelineVars, appVars>>

CalculateAllTechnicianKPIs ==
    /\ allKpis' = calculateAllTechnicianKPIs(opportunities, lineItems, jobTimes,
                                             appointments, weekStart, weekEnd)
    /\ UNCHANGED <<inputs, technician, kpis, pipelineVars, appVars>>

Next ==
    \/ \E t \in Technicians : CalculateTechnicianKPIs(t)
    \/ CalculateAllTechnicianKPIs

-----------------------------------------------------------------------------
(* Input spaces *)

SeqsUpTo(S, n) == UNION {[1..k -> S] : k \in 0..n}

\* timestamp of midnight of calendar day d
Midnight(d) == d * DayTicks

\* sample dates of the specifications with a fixed window [day 1, day 2]:
\* the day of weekEnd and the day after it
SampleDates == {Midnight(2), Midnight(3)}

TextHydroJetting ==
    <<"H", "y", "d", "r", "o", " ", "J", "e", "t", "t", "i", "n", "g", " ",
      "S", "e", "r", "v", "i", "c", "e">>
TextDrainCleaning ==
    <<"S", "t", "a", "n", "d", "a", "r", "d", " ", "D", "r", "a", "i", "n", " ",
      "C", "l", "e", "a", "n", "i", "n", "g">>
TextHighPressure ==
    <<"H", "I", "G", "H", " ", "P", "R", "E", "S", "S", "U", "R", "E">>
TextDescalingHeater ==
    <<"D", "e", "s", "c", "a", "l", "i", "n", "g", ",", " ", "W", "a", "t", "e",
      "r", " ", "H", "e", "a", "t", "e", "r">>

Opportunity(t, d, st, rev, mo, ms) ==
    [date |-> d, jobId |-> "J1", status |-> st, technician |-> t,
     membershipOpportunity |-> mo, membershipSold |-> ms, revenue |-> rev]

LineItem(t, d, text, q) ==
    [invoiceDate |-> d, jobId |-> "J1", technician |-> t, lineItem |-> text,
     quantity |-> q, price |-> 100]

JobTime(t, d, eff) ==
    [firstAppointment |-> d, jobId |-> "J1", technician |-> t, jobEfficiency |-> eff]

Appointment(t, d, st, rev) ==
    [scheduledFor |-> d, jobId |-> "J1", technician |-> t, apptStatus |-> st,
     revenue |-> rev]

\* the value of kpis before the first call
NoKpis ==
    [ technician           |-> NoCall,
      averageTicketValue   |-> Number(0),
      jobCloseRate         |-> Number(0),
      weeklyRevenue        |-> 0,
      jobEfficiency        |-> Number(0),
      membershipWinRate    |-> Number(0),
      hydroJettingJobsSold |-> 0,
      descalingJobsSold    |-> 0,
      waterHeaterJobsSold  |-> 0 ]

NoCalls ==
    /\ technician = NoCall
    /\ kpis = NoKpis
    /\ allKpis = <<NoKpis>>

FixedWeek ==
    /\ weekStart = Midnight(1)
    /\ weekEnd = Midnight(2)

\* all four collections, at most MaxRecords records in all
Init ==
    /\ opportunities \in SeqsUpTo(
          {Opportunity(t, d, "Won", 1200, TRUE, TRUE) :
              t \in Technicians, d \in SampleDates},
          MaxRecords)
    /\ lineItems \in SeqsUpTo(
          {LineItem(t, d, TextHydroJetting, 2) :
              t \in Technicians, d \in SampleDates},
          MaxRecords - Len(opportunities))
    /\ jobTimes \in SeqsUpTo(
          {JobTime(t, d, 80) : t \in Technicians, d \in SampleDates},
          MaxRecords - Len(opportunities) - Len(lineItems))
    /\ appointments \in SeqsUpTo(
          {Appointment(t, d, "Completed", 300) :
              t \in Technicians, d \in SampleDates},
          MaxRecords - Len(opportunities) - Len(lineItems) - Len(jobTimes))
    /\ FixedWeek
    /\ NoCalls
    /\ PipelineIdle
    /\ AppIdle

Spec == Init /\ [][Next]_vars

\* opportunities and appointments of every status
InitRevenue ==
    /\ opportunities \in SeqsUpTo(
          {Opportunity(t, d, st, rev, FALSE, FALSE) :
              t \in Technicians, d \in SampleDates,
              st \in {"Won", "Lost", "Pending"}, rev \in {0, 1200}},
          MaxSourceRecords)
    /\ appointments \in SeqsUpTo(
          {Appointment(t, d, st, rev) :
              t \in Technicians, d \in SampleDates,
              st \in {"Completed", "Cancelled", "Pending"}, rev \in {0, 300}},
          MaxSourceRecords - Len(opportunities))
    /\ lineItems = <<LineItem("Jake Harter", Midnight(2), TextHydroJetting, 1)>>
    /\ jobTimes = <<JobTime("Jake Harter", Midnight(2), 80)>>
    /\ FixedWeek
    /\ NoCalls
    /\ PipelineIdle
    /\ AppIdle

SpecRevenue == InitRevenue /\ [][Next]_vars

\* opportunities with every combination of the membership flags
InitMembership ==
    /\ opportunities \in SeqsUpTo(
          {Opportunity(t, d, "Won", 1200, mo, ms) :
              t \in Technicians, d \in SampleDates,
              mo \in BOOLEAN, ms \in BOOLEAN},
          MaxSourceRecords)
    /\ lineItems = <<>>
    /\ jobTimes = <<>>
    /\ appointments = <<>>
    /\ FixedWeek
    /\ NoCalls
    /\ PipelineIdle
    /\ AppIdle

SpecMembership == InitMembership /\ [][Next]_vars

\* job times with efficiencies 0, 50 and 100
InitJobTimes ==
    /\ jobTimes \in SeqsUpTo(
          {JobTime(t, d, eff) :
              t \in Technicians, d \in SampleDates, eff \in {0, 50, 100}},
          MaxJobTimes)
    /\ opportunities = <<>>
    /\ lineItems = <<>>
    /\ appointments = <<>>
    /\ FixedWeek
    /\ NoCalls
    /\ PipelineIdle
    /\ AppIdle

SpecJobTimes == InitJobTimes /\ [][Next]_vars

\* line items with matching, non-matching, empty and null texts
InitLineItems ==
    /\ lineItems \in SeqsUpTo(
          {LineItem(t, d, text, 2) :
              t \in Technicians, d \in SampleDates,
              text \in {TextHydroJetting, TextDrainCleaning, TextHighPressure,
                        TextDescalingHeater, <<>>, NullText}},
          MaxSourceRecords)
    /\ opportunities = <<>>
    /\ jobTimes = <<>>
    /\ appointments = <<>>
    /\ FixedWeek
    /\ NoCalls
    /\ PipelineIdle
    /\ AppIdle

SpecLineItems == InitLineItems /\ [][Next]_vars

\* one record of any type at any instant, and any window
Ticks == 0..(Midnight(MaxDay) + DayTicks - 1)

InitWeek ==
    /\ weekStart \in Ticks
    /\ weekEnd \in {we \in Ticks : weekStart <= we}
    /\ \E kind \in {"none", "opportunity", "lineItem", "jobTime", "appointment"},
          t \in Technicians, d \in Ticks :
          /\ opportunities = IF kind = "opportunity"
                             THEN <<Opportunity(t, d, "Won", 1200, TRUE, TRUE)>> ELSE <<>>
          /\ lineItems = IF kind = "lineItem"
                         THEN <<LineItem(t, d, TextHydroJetting, 1)>> ELSE <<>>
          /\ jobTimes = IF kind = "jobTime" THEN <<JobTime(t, d, 80)>> ELSE <<>>
          /\ appointments = IF kind = "appointment"
                            THEN <<Appointment(t, d, "Completed", 300)>> ELSE <<>>
    /\ NoCalls
    /\ PipelineIdle
    /\ AppIdle

SpecWeek == InitWeek /\ [][Next]_vars

-----------------------------------------------------------------------------
(* What the claims speak of, stated on the inputs of the last call *)

InWindow(d) == weekStart <= d /\ d <= weekEnd

\* positions of the technician's in-window records
MyOpportunities ==
    {i \in 1..Len(opportunities) :
        opportunities[i].technician = technician /\ InWindow(opportunities[i].date)}
MyLineItems ==
    {i \in 1..Len(lineItems) :
        lineItems[i].technician = technician /\ InWindow(lineItems[i].invoiceDate)}
MyJobTimes ==
    {i \in 1..Len(jobTimes) :
        jobTimes[i].technician = technician /\ InWindow(jobTimes[i].firstAppointment)}
MyAppointments ==
    {i \in 1..Len(appointments) :
        appointments[i].technician = technician /\ InWindow(appointments[i].scheduledFor)}

MyWon == {i \in MyOpportunities : opportunities[i].status = "Won"}
MyCompleted == {i \in MyAppointments : appointments[i].apptStatus = "Completed"}

RECURSIVE RevenueOver(_, _)
RevenueOver(records, S) ==
    IF S = {} THEN 0
    ELSE LET i == CHOOSE j \in S : TRUE
         IN  records[i].revenue + RevenueOver(records, S \ {i})

MyRevenue == RevenueOver(opportunities, MyOpportunities)
             + RevenueOver(appointments, MyAppointments)

\* the quotient q is the number n / d
IsQuotient(q, n, d) == q.den > 0 /\ q.num * d = n * q.den

Called == technician # NoCall
CalledAll == allKpis # <<NoKpis>>

-----------------------------------------------------------------------------
\* C2: averageTicketValue is (revenue of all in-window opportunities plus
\* revenue of all in-window appointments) divided by (Won opportunities plus
\* Completed appointments), and 0 when that count is 0; when the count is
\* positive, averageTicketValue times the count is weeklyRevenue.
C2_AverageTicketValue ==
    Called =>
        LET completedJobs == Cardinality(MyWon) + Cardinality(MyCompleted)
        IN  /\ completedJobs = 0 => kpis.averageTicketValue = Number(0)
            /\ completedJobs > 0 =>
                 /\ IsQuotient(kpis.averageTicketValue, MyRevenue, completedJobs)
                 /\ Times(kpis.averageTicketValue, completedJobs)
                      = Number(kpis.weeklyRevenue)

\* one Won opportunity of 1200 and one Completed appointment of 300
C2_Witness ==
    /\ Called
    /\ Cardinality(MyWon) = 1 /\ Cardinality(MyCompleted) = 1
    /\ kpis.averageTicketValue = Number(750)
    /\ kpis.weeklyRevenue = 1500
    /\ kpis.jobCloseRate = Number(100)

\* C3 as stated: a technician with no in-window opportunity gets
\* jobCloseRate 0 and averageTicketValue 0, whatever the appointments are.
C3_Original ==
    (Called /\ MyOpportunities = {}) =>
        /\ kpis.jobCloseRate = Number(0)
        /\ kpis.averageTicketValue = Number(0)

\* C3 (amended): a technician with no in-window opportunity gets
\* jobCloseRate 0; averageTicketValue is 0 when no in-window appointment is
\* Completed either, and otherwise the revenue of the in-window appointments
\* divided by the number of Completed ones; neither value is NaN.
C3_EmptyPopulation ==
    (Called /\ MyOpportunities = {}) =>
        /\ kpis.jobCloseRate = Number(0)
        /\ MyCompleted = {} => kpis.averageTicketValue = Number(0)
        /\ MyCompleted # {} =>
             IsQuotient(kpis.averageTicketValue,
                        RevenueOver(appointments, MyAppointments),
                        Cardinality(MyCompleted))
        /\ ~IsNaN(kpis.jobCloseRate)
        /\ ~IsNaN(kpis.averageTicketValue)

\* no in-window opportunity (one outside the window), a Completed appointment
C3_Witness ==
    /\ Called
    /\ MyOpportunities = {}
    /\ opportunities # <<>>
    /\ MyCompleted # {}
    /\ kpis.averageTicketValue = Number(300)
    /\ kpis.jobCloseRate = Number(0)

\* C4: jobCloseRate is 100 * (in-window Won opportunities) / (in-window
\* opportunities), 0 when there is none, and the appointments have no
\* influence on it.
C4_JobCloseRate ==
    Called =>
        /\ MyOpportunities = {} => kpis.jobCloseRate = Number(0)
        /\ MyOpportunities # {} =>
             IsQuotient(kpis.jobCloseRate, 100 * Cardinality(MyWon),
                        Cardinality(MyOpportunities))
        /\ kpis.jobCloseRate =
             calculateTechnicianKPIs(technician, opportunities, lineItems, jobTimes,
                                     <<>>, weekStart, weekEnd).jobCloseRate

\* one opportunity Won and one not
C4_Witness ==
    /\ Called
    /\ Cardinality(MyOpportunities) = 2
    /\ Cardinality(MyWon) = 1
    /\ kpis.jobCloseRate = Number(50)

\* C5: weeklyRevenue is the revenue of all in-window opportunities plus the
\* revenue of all in-window appointments, whatever their status, and 0 when
\* there is none.
C5_WeeklyRevenue ==
    Called =>
        /\ kpis.weeklyRevenue = MyRevenue
        /\ (MyOpportunities = {} /\ MyAppointments = {}) => kpis.weeklyRevenue = 0

\* a Lost opportunity and a Cancelled appointment both count
C5_Witness ==
    /\ Called
    /\ \E i \in MyOpportunities :
          opportunities[i].status = "Lost" /\ opportunities[i].revenue = 1200
    /\ \E i \in MyAppointments :
          appointments[i].apptStatus = "Cancelled" /\ appointments[i].revenue = 300
    /\ kpis.weeklyRevenue = 1500

-----------------------------------------------------------------------------
\* C6: jobEfficiency is the mean of jobEfficiency over the in-window job
\* times whose jobEfficiency is > 0 (zero-valued records are in neither the
\* sum nor the count), and 0 when there is none; [0, 50, 100] gives 75.
MyPositiveJobTimes == {i \in MyJobTimes : jobTimes[i].jobEfficiency > 0}

RECURSIVE EfficiencyOver(_)
EfficiencyOver(S) ==
    IF S = {} THEN 0
    ELSE LET i == CHOOSE j \in S : TRUE
         IN  jobTimes[i].jobEfficiency + EfficiencyOver(S \ {i})

C6_JobEfficiency ==
    Called =>
        /\ MyPositiveJobTimes = {} => kpis.jobEfficiency = Number(0)
        /\ MyPositiveJobTimes # {} =>
             IsQuotient(kpis.jobEfficiency, EfficiencyOver(MyPositiveJobTimes),
                        Cardinality(MyPositiveJobTimes))

\* in-window efficiencies 0, 50 and 100 give 75
C6_Witness ==
    /\ Called
    /\ Cardinality(MyJobTimes) = 3
    /\ {jobTimes[i].jobEfficiency : i \in MyJobTimes} = {0, 50, 100}
    /\ kpis.jobEfficiency = Number(75)

-----------------------------------------------------------------------------
MyMembershipOpportunities ==
    {i \in MyOpportunities : opportunities[i].membershipOpportunity}

\* C7 as stated: membershipWinRate is 100 * (in-window opportunities with
\* membershipSold) / (in-window opportunities with membershipOpportunity),
\* and 0 when the latter is 0.
C7_Original ==
    Called =>
        /\ MyMembershipOpportunities = {} => kpis.membershipWinRate = Number(0)
        /\ MyMembershipOpportunities # {} =>
             IsQuotient(kpis.membershipWinRate,
                        100 * Cardinality({i \in MyOpportunities :
                                             opportunities[i].membershipSold}),
                        Cardinality(MyMembershipOpportunities))

\* C7 (amended): membershipWinRate is 100 * (in-window opportunities with
\* both membershipOpportunity and membershipSold) / (in-window opportunities
\* with membershipOpportunity), and 0 when the latter is 0.
C7_MembershipWinRate ==
    Called =>
        /\ MyMembershipOpportunities = {} => kpis.membershipWinRate = Number(0)
        /\ MyMembershipOpportunities # {} =>
             IsQuotient(kpis.membershipWinRate,
                        100 * Cardinality({i \in MyMembershipOpportunities :
                                             opportunities[i].membershipSold}),
                        Cardinality(MyMembershipOpportunities))

\* a membership sold on an opportunity that was no membership opportunity,
\* next to a membership opportunity that was not sold
C7_Witness ==
    /\ Called
    /\ \E i \in MyOpportunities :
          ~opportunities[i].membershipOpportunity /\ opportunities[i].membershipSold
    /\ \E i \in MyMembershipOpportunities : ~opportunities[i].membershipSold
    /\ kpis.membershipWinRate = Number(0)

-----------------------------------------------------------------------------
\* two characters that are the same letter, whatever their case
SameLetter(a, b) ==
    \/ a = b
    \/ a \in DOMAIN UpperToLower /\ UpperToLower[a] = b
    \/ b \in DOMAIN UpperToLower /\ UpperToLower[b] = a

\* the keyword occurs in the text, ignoring case
OccursIn(keyword, text) ==
    \E offset \in 0..(Len(text) - Len(keyword)) :
        \A j \in 1..Len(keyword) : SameLetter(text[offset + j], keyword[j])

\* in-window line items whose text holds a keyword of the list
MyMatching(keywords) ==
    {i \in MyLineItems :
        /\ lineItems[i].lineItem # NullText
        /\ \E k \in 1..Len(keywords) : OccursIn(keywords[k], lineItems[i].lineItem)}

\* C8: each of the three job counts is the number of in-window line-item
\* records (one per record, whatever the quantity) whose text contains,
\* ignoring case, a keyword of its list; a null or empty text matches no
\* list and a record matching several keywords counts once.
C8_JobsSold ==
    Called =>
        /\ kpis.hydroJettingJobsSold = Cardinality(MyMatching(getHydroJettingKeywords))
        /\ kpis.descalingJobsSold = Cardinality(MyMatching(getDescalingKeywords))
        /\ kpis.waterHeaterJobsSold = Cardinality(MyMatching(getWaterHeaterKeywords))

\* "Hydro Jetting Service" (two keywords, quantity 2) and "Standard Drain
\* Cleaning" give hydroJettingJobsSold 1
C8_Witness ==
    /\ Called
    /\ {lineItems[i].lineItem : i \in MyLineItems} = {TextHydroJetting, TextDrainCleaning}
    /\ \A i \in MyLineItems : lineItems[i].quantity = 2
    /\ kpis.hydroJettingJobsSold = 1
    /\ kpis.descalingJobsSold = 0

-----------------------------------------------------------------------------
RemoveAt(s, i) == SubSeq(s, 1, i - 1) \o SubSeq(s, i + 1, Len(s))

\* the dates the claim speaks of
OnBoundary(d) == d = weekStart \/ d = weekEnd
OneDayOutside(d) == d = weekStart - DayTicks \/ d = weekEnd + DayTicks

\* the KPIs of the technician of the last call on other collections
KpisOn(opps, items, jobs, appts) ==
    calculateTechnicianKPIs(technician, opps, items, jobs, appts, weekStart, weekEnd)

\* C9: a record of the technician dated exactly on weekEnd or on weekStart
\* takes part in the KPI computation (the KPIs are not those of the
\* collections without it), and one dated one day past weekEnd or one day
\* before weekStart does not (the KPIs are those of the collections without
\* it); for each of the four record types.
C9_WeekBoundary ==
    Called =>
        /\ \A i \in 1..Len(opportunities) :
             LET without == KpisOn(RemoveAt(opportunities, i), lineItems, jobTimes, appointments)
             IN  opportunities[i].technician = technician =>
                   /\ OnBoundary(opportunities[i].date) => kpis # without
                   /\ OneDayOutside(opportunities[i].date) => kpis = without
        /\ \A i \in 1..Len(lineItems) :
             LET without == KpisOn(opportunities, RemoveAt(lineItems, i), jobTimes, appointments)
             IN  lineItems[i].technician = technician =>
                   /\ OnBoundary(lineItems[i].invoiceDate) => kpis # without
                   /\ OneDayOutside(lineItems[i].invoiceDate) => kpis = without
        /\ \A i \in 1..Len(jobTimes) :
             LET without == KpisOn(opportunities, lineItems, RemoveAt(jobTimes, i), appointments)
             IN  jobTimes[i].technician = technician =>
                   /\ OnBoundary(jobTimes[i].firstAppointment) => kpis # without
                   /\ OneDayOutside(jobTimes[i].firstAppointment) => kpis = without
        /\ \A i \in 1..Len(appointments) :
             LET without == KpisOn(opportunities, lineItems, jobTimes, RemoveAt(appointments, i))
             IN  appointments[i].technician = technician =>
                   /\ OnBoundary(appointments[i].scheduledFor) => kpis # without
                   /\ OneDayOutside(appointments[i].scheduledFor) => kpis = without

\* an appointment scheduled exactly at weekEnd, later than weekStart, counts
C9_Witness ==
    /\ Called
    /\ weekStart < weekEnd
    /\ \E i \in 1..Len(appointments) :
          /\ appointments[i].technician = technician
          /\ appointments[i].scheduledFor = weekEnd
    /\ kpis.weeklyRevenue = 300

-----------------------------------------------------------------------------
\* the collections reduced to the technician's in-window records
RelevantOpportunities ==
    LET keep(r) == r.technician = technician /\ InWindow(r.date)
    IN  SelectSeq(opportunities, keep)
RelevantLineItems ==
    LET keep(r) == r.technician = technician /\ InWindow(r.invoiceDate)
    IN  SelectSeq(lineItems, keep)
RelevantJobTimes ==
    LET keep(r) == r.technician = technician /\ InWindow(r.firstAppointment)
    IN  SelectSeq(jobTimes, keep)
RelevantAppointments ==
    LET keep(r) == r.technician = technician /\ InWindow(r.scheduledFor)
    IN  SelectSeq(appointments, keep)

\* C1: the KPIs depend only on the records of the technician dated within
\* [weekStart, weekEnd]: they are the KPIs of the collections reduced to
\* those records, so any two inputs agreeing on them give the same KPIs;
\* a call leaves the collections unchanged and repeating it on the same
\* inputs returns the same KPIs.
C1_OnlyRelevantRecords ==
    Called =>
        kpis = KpisOn(RelevantOpportunities, RelevantLineItems,
                      RelevantJobTimes, RelevantAppointments)

C1_Rerun ==
    /\ inputs' = inputs
    /\ (Called /\ technician' = technician) => kpis' = kpis

C1_Dependence == [](C1_OnlyRelevantRecords) /\ [][C1_Rerun]_vars

\* a call whose collections hold a record of the technician in the window,
\* one of the technician outside it and one of another technician
C1_Witness ==
    /\ Called
    /\ MyLineItems # {}
    /\ \E i \in 1..Len(lineItems) :
          lineItems[i].technician = technician /\ ~InWindow(lineItems[i].invoiceDate)
    /\ \E i \in 1..Len(appointments) :
          appointments[i].technician # technician /\ InWindow(appointments[i].scheduledFor)
    /\ kpis.hydroJettingJobsSold = 1
    /\ kpis.weeklyRevenue = 0

-----------------------------------------------------------------------------
\* the technician names of the four collections, in scanning order
AllNames ==
    [i \in 1..Len(opportunities) |-> opportunities[i].technician]
    \o [i \in 1..Len(lineItems) |-> lineItems[i].technician]
    \o [i \in 1..Len(jobTimes) |-> jobTimes[i].technician]
    \o [i \in 1..Len(appointments) |-> appointments[i].technician]

FirstOccurrence(name) ==
    CHOOSE i \in 1..Len(AllNames) :
        AllNames[i] = name /\ \A j \in 1..(i - 1) : AllNames[j] # name

\* C10: calculateAllTechnicianKPIs returns one entry per distinct technician
\* name of the four collections, none twice and none missing, in the order
\* of first occurrence scanning opportunities, lineItems, jobTimes,
\* appointments, each entry being calculateTechnicianKPIs of that name.
C10_AllTechnicians ==
    CalledAll =>
        /\ {allKpis[i].technician : i \in 1..Len(allKpis)}
             = {AllNames[i] : i \in 1..Len(AllNames)}
        /\ \A i, j \in 1..Len(allKpis) :
             i < j => /\ allKpis[i].technician # allKpis[j].technician
                      /\ FirstOccurrence(allKpis[i].technician)
                           < FirstOccurrence(allKpis[j].technician)
        /\ \A i \in 1..Len(allKpis) :
             allKpis[i] = calculateTechnicianKPIs(allKpis[i].technician, opportunities,
                              lineItems, jobTimes, appointments, weekStart, weekEnd)

\* three records of two technicians, the alphabetically later name first
C10_Witness ==
    /\ CalledAll
    /\ Len(AllNames) = 3
    /\ Len(allKpis) = 2
    /\ allKpis[1].technician = "Jake Harter"
    /\ allKpis[2].technician = "Aaron McDaniel"


-----------------------------------------------------------------------------
(* Spreadsheet cells and the outcome of a call *)

\* A cell of a parsed row: a string, a native number, or undefined when
\* the row has no value in that column.
StringCell(text) == [type |-> "string", text |-> text, num |-> NaN]

NumberCell(q) == [type |-> "number", text |-> <<>>, num |-> q]

UndefinedCell == [type |-> "undefined", text |-> <<>>, num |-> NaN]

NullCell == [type |-> "null", text |-> <<>>, num |-> NaN]

\* !cell
Falsy(cell) ==
    \/ cell.type \in {"undefined", "null"}
    \/ cell.type = "string" /\ cell.text = <<>>
    \/ cell.type = "number" /\ (IsNaN(cell.num) \/ cell.num.num = 0)

Return(v) == [threw |-> FALSE, value |-> v]

\* A call on a value that has no such method: cell.replace, cell.match,
\* cell.split, cell.trim.
ThrowTypeError == [threw |-> TRUE, value |-> "TypeError"]

-----------------------------------------------------------------------------
(* formatters: parseCurrency, parsePercentage, parseTimeToMinutes *)

DigitValue ==
    [c \in {"0", "1", "2", "3", "4", "5", "6", "7", "8", "9"} |->
        CASE c = "0" -> 0 [] c = "1" -> 1 [] c = "2" -> 2 [] c = "3" -> 3
          [] c = "4" -> 4 [] c = "5" -> 5 [] c = "6" -> 6 [] c = "7" -> 7
          [] c = "8" -> 8 [] c = "9" -> 9]

IsDigit(c) == c \in DOMAIN DigitValue

\* \s of a regular expression, and the white space parseFloat skips
IsWhiteSpace(c) == c \in {" ", "\t", "\n"}

\* how many digits text starts with
LeadingDigits(text) ==
    CHOOSE k \in 0..Len(text) :
        /\ \A j \in 1..k : IsDigit(text[j])
        /\ k = Len(text) \/ ~IsDigit(text[k + 1])

LeadingWhiteSpace(text) ==
    CHOOSE k \in 0..Len(text) :
        /\ \A j \in 1..k : IsWhiteSpace(text[j])
        /\ k = Len(text) \/ ~IsWhiteSpace(text[k + 1])

Drop(text, k) == SubSeq(text, k + 1, Len(text))

RECURSIVE DigitsValue(_)
DigitsValue(digits) ==
    IF digits = <<>> THEN 0
    ELSE DigitsValue(SubSeq(digits, 1, Len(digits) - 1)) * 10
         + DigitValue[digits[Len(digits)]]

RECURSIVE Pow10(_)
Pow10(n) == IF n = 0 THEN 1 ELSE 10 * Pow10(n - 1)

Negate(q) == [num |-> 0 - q.num, den |-> q.den]

\* the text after a sign, if it starts with one
UnsignedPart(t) == IF t # <<>> /\ t[1] \in {"-", "+"} THEN Tail(t) ELSE t

\* the number of digits after a decimal point at the start of rest
FractionDigits(rest) ==
    IF rest # <<>> /\ rest[1] = "." THEN LeadingDigits(Tail(rest)) ELSE 0

\* the value of the decimal literal that u starts with, of k digits, a
\* point and f digits (of k digits alone when f is 0); NaN when it has no
\* digit
DecimalValue(u, k, f) ==
    IF k = 0 /\ f = 0 THEN NaN
    ELSE Divide(DigitsValue(SubSeq(u, 1, k)) * Pow10(f)
                    + DigitsValue(SubSeq(u, k + 2, k + 1 + f)),
                Pow10(f))

DecimalAfter(u, k) == DecimalValue(u, k, FractionDigits(Drop(u, k)))

Signed(t, magnitude) ==
    IF t # <<>> /\ t[1] = "-" /\ ~IsNaN(magnitude) THEN Negate(magnitude)
    ELSE magnitude

SignedDecimal(t, u) == Signed(t, DecimalAfter(u, LeadingDigits(u)))

\* parseFloat: leading white space, a sign, then the longest decimal
\* literal; NaN when there is none.  Exponents and the Infinity literal are
\* not modelled (no input text holds the letters e, E or I).
parseFloat(text) ==
    SignedDecimal(Drop(text, LeadingWhiteSpace(text)),
                  UnsignedPart(Drop(text, LeadingWhiteSpace(text))))

\* string.replace(/[...]/g, '')
RemoveChars(text, chars) == SelectSeq(text, LAMBDA c : c \notin chars)

\* x || 0 for a number x
OrZero(q) == IF IsNaN(q) \/ q.num = 0 THEN Number(0) ELSE q

\* faulty variant: the dollar sign is stripped but the comma is not
parseCurrency_KeepsComma(currencyString) ==
    IF Falsy(currencyString) THEN Return(Number(0))
    ELSE IF currencyString.type # "string" THEN ThrowTypeError
    ELSE Return(OrZero(parseFloat(RemoveChars(currencyString.text, {"$"}))))

parseCurrency(currencyString) ==
    IF Falsy(currencyString) THEN Return(Number(0))
    ELSE IF currencyString.type # "string" THEN ThrowTypeError
    ELSE Return(OrZero(parseFloat(RemoveChars(currencyString.text, {"$", ","}))))

parsePercentage(percentageString) ==
    IF Falsy(percentageString) THEN Return(Number(0))
    ELSE IF percentageString.type # "string" THEN ThrowTypeError
    ELSE Return(OrZero(parseFloat(
             RemoveChars(percentageString.text, {"%", " ", "\t", "\n"}))))

\* where /(\d+)h\s*(\d+)m/ matches when it is tried at position i: the
\* hours are the digits up to the h, the minutes the digits before the m
MatchAt(text, i) ==
    LET t == Drop(text, i - 1)
        h == LeadingDigits(t)
        afterH == Drop(t, h + 1)
        afterSpace == Drop(afterH, LeadingWhiteSpace(afterH))
        m == LeadingDigits(afterSpace)
    IN  [matches |-> /\ h > 0
                     /\ Len(t) > h /\ t[h + 1] = "h"
                     /\ m > 0
                     /\ Len(afterSpace) > m /\ afterSpace[m + 1] = "m",
         hours   |-> DigitsValue(SubSeq(t, 1, h)),
         minutes |-> DigitsValue(SubSeq(afterSpace, 1, m))]

parseTimeToMinutes(timeString) ==
    IF Falsy(timeString) THEN Return(Number(0))
    ELSE IF timeString.type # "string" THEN ThrowTypeError
    ELSE LET text == timeString.text
             starts == {i \in 1..Len(text) : MatchAt(text, i).matches}
         IN  IF starts = {} THEN Return(Number(0))
             ELSE LET first == CHOOSE i \in starts : \A j \in starts : i <= j
                      match == MatchAt(text, first)
                  IN  Return(Number(match.hours * 60 + match.minutes))

-----------------------------------------------------------------------------
(* Calls of the formatters on one cell *)

MaxTextLen == 3

CurrencyChars == {"$", ",", ".", "1", "0", "%", " ", "x", "-"}

TextDollars == <<"$", "1", ",", "2", "3", "4", ".", "5", "6">>
TextPercent == <<"8", "5", ".", "5", " ", "%">>
TextNotAvailable == <<"N", "/", "A">>
TextDuration == <<"4", "h", " ", "4", "8", "m", " ", "(", "2", "8", "8", " ",
                  "m", "i", "n", "s", ")">>

FormatterTexts ==
    SeqsUpTo(CurrencyChars, MaxTextLen)
        \cup {TextDollars, TextPercent, TextNotAvailable, TextDuration}

Calling(arg) == [fn |-> "none", arg |-> arg, ret |-> "none"]

ParseCurrency ==
    /\ call' = [fn |-> "parseCurrency", arg |-> call.arg,
                ret |-> parseCurrency(call.arg)]
    /\ UNCHANGED <<inputs, technician, kpis, allKpis,
                   files, parses, integration, validation, appVars>>

ParsePercentage ==
    /\ call' = [fn |-> "parsePercentage", arg |-> call.arg,
                ret |-> parsePercentage(call.arg)]
    /\ UNCHANGED <<inputs, technician, kpis, allKpis,
                   files, parses, integration, validation, appVars>>

ParseTimeToMinutes ==
    /\ call' = [fn |-> "parseTimeToMinutes", arg |-> call.arg,
                ret |-> parseTimeToMinutes(call.arg)]
    /\ UNCHANGED <<inputs, technician, kpis, allKpis,
                   files, parses, integration, validation, appVars>>

NextFormatters == ParseCurrency \/ ParsePercentage \/ ParseTimeToMinutes

NoRecords ==
    /\ opportunities = <<>>
    /\ lineItems = <<>>
    /\ jobTimes = <<>>
    /\ appointments = <<>>
    /\ FixedWeek
    /\ NoCalls

\* the formatters are applied to text, null or undefined
InitFormatters ==
    /\ NoRecords
    /\ call \in {Calling(UndefinedCell), Calling(NullCell)}
                  \cup {Calling(StringCell(t)) : t \in FormatterTexts}
    /\ files = "none"
    /\ parses = "none"
    /\ integration = "none"
    /\ validation = "none"
    /\ AppIdle

SpecFormatters == InitFormatters /\ [][NextFormatters]_vars

-----------------------------------------------------------------------------
(* C18 *)

HasNoDigit(text) == \A i \in 1..Len(text) : ~IsDigit(text[i])

\* removing one occurrence of a stripped character leaves the result alone
StripsEach(chars, result) ==
    \A i \in 1..Len(call.arg.text) :
        call.arg.text[i] \in chars
            => result[StringCell(RemoveAt(call.arg.text, i))] = call.ret

-----------------------------------------------------------------------------
(* formatters: normalizeTechnicianName *)

TextUnknownTechnician == <<"U", "n", "k", "n", "o", "w", "n", " ", "T", "e", "c", "h", "n", "i", "c", "i", "a", "n">>

nameMap ==
    <<"A", "a", "r", "o", "n", " ", "M">> :>
        <<"A", "a", "r", "o", "n", " ", "M", "c", "D", "a", "n", "i", "e", "l">> @@
    <<"A", "a", "r", "o", "n">> :>
        <<"A", "a", "r", "o", "n", " ", "M", "c", "D", "a", "n", "i", "e", "l">> @@
    <<"J", "a", "k", "e", " ", "H">> :>
        <<"J", "a", "k", "e", " ", "H", "a", "r", "t", "e", "r">> @@
    <<"J", "a", "k", "e">> :>
        <<"J", "a", "k", "e", " ", "H", "a", "r", "t", "e", "r">> @@
    <<"S", "t", "e", "v", "e", "n", " ", "S">> :>
        <<"S", "t", "e", "v", "e", "n", " ", "S", "p", "r", "i", "n", "g", "e", "r">> @@
    <<"S", "t", "e", "v", "e", "n">> :>
        <<"S", "t", "e", "v", "e", "n", " ", "S", "p", "r", "i", "n", "g", "e", "r">> @@
    <<"C", "o", "l", "i", "n", " ", "M">> :>
        <<"C", "o", "l", "i", "n", " ", "M", "y", "e", "r", "s">> @@
    <<"C", "o", "l", "i", "n">> :>
        <<"C", "o", "l", "i", "n", " ", "M", "y", "e", "r", "s">> @@
    <<"B", "r", "e", "n", "n", "a", "n", " ", "E">> :>
        <<"B", "r", "e", "n", "n", "a", "n", " ", "E", "b", "b", "e", "s", "m", "i", "e", "r">> @@
    <<"B", "r", "e", "n", "n", "a", "n">> :>
        <<"B", "r", "e", "n", "n", "a", "n", " ", "E", "b", "b", "e", "s", "m", "i", "e", "r">> @@
    <<"J", "u", "s", "t", "i", "c", "e", " ", "B">> :>
        <<"J", "u", "s", "t", "i", "c", "e", " ", "B", "u", "r", "n", "s">> @@
    <<"J", "u", "s", "t", "i", "c", "e">> :>
        <<"J", "u", "s", "t", "i", "c", "e", " ", "B", "u", "r", "n", "s">> @@
    <<"A", "l", "e", "x", " ", "P">> :>
        <<"A", "l", "e", "x", " ", "P">>

\* the properties every object literal inherits from Object.prototype;
\* each is a function or an object, never a string (four of them are listed)
InheritedKeys ==
    {<<"c", "o", "n", "s", "t", "r", "u", "c", "t", "o", "r">>,
     <<"t", "o", "S", "t", "r", "i", "n", "g">>,
     <<"v", "a", "l", "u", "e", "O", "f">>,
     <<"h", "a", "s", "O", "w", "n", "P", "r", "o", "p", "e", "r", "t", "y">>}

InheritedValue(key) == [type |-> "function", text |-> key, num |-> NaN]

TrailingWhiteSpace(text) ==
    CHOOSE k \in 0..Len(text) :
        /\ \A j \in (Len(text) - k + 1)..Len(text) : IsWhiteSpace(text[j])
        /\ k = Len(text) \/ ~IsWhiteSpace(text[Len(text) - k])

TrimEnd(t) == SubSeq(t, 1, Len(t) - TrailingWhiteSpace(t))

\* name.trim()
trim(text) == TrimEnd(Drop(text, LeadingWhiteSpace(text)))

\* text.replace(/\s+/g, ' ')
RECURSIVE CollapseWhiteSpace(_)
CollapseWhiteSpace(text) ==
    IF text = <<>> THEN <<>>
    ELSE IF IsWhiteSpace(text[1])
         THEN <<" ">> \o CollapseWhiteSpace(Drop(text, LeadingWhiteSpace(text)))
         ELSE <<text[1]>> \o CollapseWhiteSpace(Tail(text))

\* nameMap[normalized]: an own property, else an inherited one, else
\* undefined
Lookup(normalized) ==
    IF normalized \in DOMAIN nameMap THEN StringCell(nameMap[normalized])
    ELSE IF normalized \in InheritedKeys THEN InheritedValue(normalized)
    ELSE UndefinedCell

\* mapped || normalized
OrName(mapped, normalized) ==
    IF Falsy(mapped) THEN StringCell(normalized) ELSE mapped

Canonical(normalized) == OrName(Lookup(normalized), normalized)

normalizeTechnicianName(name) ==
    IF Falsy(name) THEN Return(StringCell(TextUnknownTechnician))
    ELSE IF name.type # "string" THEN ThrowTypeError
    ELSE Return(Canonical(CollapseWhiteSpace(trim(name.text))))

-----------------------------------------------------------------------------
(* Calls of normalizeTechnicianName on one cell *)

MaxNameTokens == 3

TextJake == <<"J", "a", "k", "e">>
TextAaron == <<"A", "a", "r", "o", "n">>
TextBob == <<"B", "o", "b">>
TextConstructor == <<"c", "o", "n", "s", "t", "r", "u", "c", "t", "o", "r">>
TextJakeHPadded == <<" ", " ", "J", "a", "k", "e", " ", " ", " ", "H", " ">>

NameTokens == {<<" ">>, <<" ", " ">>, <<"\t">>, <<"H">>,
               TextJake, TextAaron, TextBob, TextConstructor}

RECURSIVE Concat(_)
Concat(texts) == IF texts = <<>> THEN <<>> ELSE Head(texts) \o Concat(Tail(texts))

NameTexts ==
    {Concat(tokens) : tokens \in SeqsUpTo(NameTokens, MaxNameTokens)}
        \cup {TextJakeHPadded}

NormalizeTechnicianName ==
    /\ call' = [fn |-> "normalizeTechnicianName", arg |-> call.arg,
                ret |-> normalizeTechnicianName(call.arg)]
    /\ UNCHANGED <<inputs, technician, kpis, allKpis,
                   files, parses, integration, validation, appVars>>

NextNames == NormalizeTechnicianName

InitNames ==
    /\ NoRecords
    /\ call \in {Calling(UndefinedCell), Calling(NullCell)}
                  \cup {Calling(StringCell(t)) : t \in NameTexts}
    /\ files = "none"
    /\ parses = "none"
    /\ integration = "none"
    /\ validation = "none"
    /\ AppIdle

SpecNames == InitNames /\ [][NextNames]_vars

-----------------------------------------------------------------------------
(* C19 *)

Normalized == call.fn = "normalizeTechnicianName"

\* the words of a text: its maximal runs of characters other than white
\* space
RECURSIVE Words(_)
Words(text) ==
    LET t == Drop(text, LeadingWhiteSpace(text))
        n == CHOOSE k \in 0..Len(t) :
                 /\ \A j \in 1..k : ~IsWhiteSpace(t[j])
                 /\ k = Len(t) \/ IsWhiteSpace(t[k + 1])
    IN  IF t = <<>> THEN <<>>
        ELSE <<SubSeq(t, 1, n)>> \o Words(Drop(t, n))

RECURSIVE JoinWords(_)
JoinWords(words) ==
    IF words = <<>> THEN <<>>
    ELSE IF Len(words) = 1 THEN words[1]
    ELSE words[1] \o <<" ">> \o JoinWords(Tail(words))

\* C19: normalizeTechnicianName returns "Unknown Technician" for null,
\* undefined and the empty string; for any other name it returns the
\* canonical name of the alias table when the trimmed and collapsed name
\* (its words joined by single spaces) is a key of the table, and the
\* collapsed name itself when it is not.
C19_NormalizeTechnicianName ==
    Normalized =>
        /\ ~call.ret.threw
        /\ Falsy(call.arg) => call.ret.value = StringCell(TextUnknownTechnician)
        /\ ~Falsy(call.arg) =>
              LET collapsed == JoinWords(Words(call.arg.text))
              IN  call.ret.value =
                      StringCell(IF collapsed \in DOMAIN nameMap
                                 THEN nameMap[collapsed] ELSE collapsed)

\* the same for every name whose collapsed form is not an inherited
\* property of the table
C19_OwnKeys ==
    Normalized /\ JoinWords(Words(call.arg.text)) \notin InheritedKeys
        => C19_NormalizeTechnicianName

C19_Examples ==
    /\ Normalized
    /\ call.arg = StringCell(TextJakeHPadded)
    /\ call.ret.value = StringCell(nameMap[<<"J", "a", "k", "e", " ", "H">>])

-----------------------------------------------------------------------------
(* dateHelpers: parseDate, parseDateTime *)

\* A Date in local time by its components (month as getMonth gives it,
\* from 0), or Invalid Date.
InvalidDate ==
    [valid |-> FALSE, year |-> 0, month |-> 0, day |-> 0, hour |-> 0, minute |-> 0]

\* text.split(separator) for a one-character separator
RECURSIVE split(_, _)
split(text, separator) ==
    LET n == CHOOSE k \in 0..Len(text) :
                 /\ \A j \in 1..k : text[j] # separator
                 /\ k = Len(text) \/ text[k + 1] = separator
    IN  IF n = Len(text) THEN <<text>>
        ELSE <<SubSeq(text, 1, n)>> \o split(Drop(text, n + 1), separator)

\* an element of a destructured array: undefined beyond its end
ElementAt(parts, i) ==
    IF i <= Len(parts) THEN StringCell(parts[i]) ELSE UndefinedCell

\* the length of the decimal literal that u starts with, of k digits
LiteralLength(u, k) ==
    k + (IF Drop(u, k) # <<>> /\ Drop(u, k)[1] = "."
         THEN FractionDigits(Drop(u, k)) + 1 ELSE 0)

NumberOfTrimmed(t, u) ==
    IF t = <<>> THEN Number(0)
    ELSE IF LiteralLength(u, LeadingDigits(u)) # Len(u) THEN NaN
    ELSE SignedDecimal(t, u)

\* Number(x) as map(Number) applies it to a part: white space is trimmed,
\* the empty text is 0, a decimal literal is its value, anything else and
\* undefined are NaN (hexadecimal, exponents and Infinity are not modelled)
ToNumber(cell) ==
    IF cell.type # "string" THEN NaN
    ELSE NumberOfTrimmed(trim(cell.text), UnsignedPart(trim(cell.text)))

\* the integer part of a finite number
Truncate(q) ==
    IF q.num >= 0 THEN q.num \div q.den ELSE 0 - ((0 - q.num) \div q.den)

\* new Date(year, monthIndex, day): midnight of that local day, Invalid
\* Date when a component is NaN; a year from 0 to 99 counts from 1900.
\* Components that overflow the calendar are kept as they are (the
\* texts parsed here are calendar dates).
NewDate(year, monthIndex, day) ==
    IF IsNaN(year) \/ IsNaN(monthIndex) \/ IsNaN(day) THEN InvalidDate
    ELSE [valid  |-> TRUE,
          year   |-> IF Truncate(year) \in 0..99
                     THEN 1900 + Truncate(year) ELSE Truncate(year),
          month  |-> Truncate(monthIndex),
          day    |-> Truncate(day),
          hour   |-> 0,
          minute |-> 0]

\* x - 1 for a number x
MinusOne(q) == IF IsNaN(q) THEN NaN ELSE Divide(q.num - q.den, q.den)

\* date.setHours(hour, minutes, 0, 0)
setHours(date, hour, minutes) ==
    IF ~date.valid \/ IsNaN(hour) \/ IsNaN(minutes) THEN InvalidDate
    ELSE [date EXCEPT !.hour = Truncate(hour), !.minute = Truncate(minutes)]

DateOfParts(parts) ==
    NewDate(ToNumber(ElementAt(parts, 3)),
            MinusOne(ToNumber(ElementAt(parts, 1))),
            ToNumber(ElementAt(parts, 2)))

\* const [month, day, year] = dateString.split('/').map(Number)
parseDate(dateString) ==
    IF dateString.type # "string" THEN ThrowTypeError
    ELSE Return(DateOfParts(split(dateString.text, "/")))

TextAM == <<"A", "M">>
TextPM == <<"P", "M">>

\* the hour after the two tests of the period
HourOfPeriod(hours, period) ==
    IF period = StringCell(TextPM) /\ hours # Number(12)
    THEN Divide(hours.num + 12 * hours.den, hours.den)
    ELSE IF period = StringCell(TextAM) /\ hours = Number(12) THEN Number(0)
    ELSE hours

\* const [hours, minutes] = time.split(':').map(Number)
WithClock(date, clock, period) ==
    Return(setHours(date, HourOfPeriod(ToNumber(ElementAt(clock, 1)), period),
                    ToNumber(ElementAt(clock, 2))))

\* const [time, period] = timePart.split(' ')
WithTimeAndPeriod(date, timeAndPeriod) ==
    WithClock(date, split(ElementAt(timeAndPeriod, 1).text, ":"),
              ElementAt(timeAndPeriod, 2))

\* if (timePart) { ... } return date
WithTimePart(date, timePart) ==
    IF Falsy(timePart) THEN Return(date)
    ELSE WithTimeAndPeriod(date, split(timePart.text, " "))

\* dateTimeString.split(' ') gives the date, the time and the period as
\* three elements; [datePart, timePart] keeps the first two, and
\* timePart.split(' ') of a text without a space has one element, so
\* period is undefined.
parseDateTimeParts(parts) ==
    WithTimePart(parseDate(ElementAt(parts, 1)).value, ElementAt(parts, 2))

parseDateTime(dateTimeString) ==
    IF dateTimeString.type # "string" THEN ThrowTypeError
    ELSE parseDateTimeParts(split(dateTimeString.text, " "))

-----------------------------------------------------------------------------
(* Calls of the date helpers on one cell *)

DigitChars == <<"0", "1", "2", "3", "4", "5", "6", "7", "8", "9">>

TwoDigits(n) == <<DigitChars[(n \div 10) + 1], DigitChars[(n % 10) + 1]>>

TextYear == <<"2", "0", "2", "5">>

DateText(month, day) ==
    TwoDigits(month) \o <<"/">> \o TwoDigits(day) \o <<"/">> \o TextYear

\* MM/DD/YYYY HH:MM AM|PM
DateTimeText(month, day, hours, minutes, period) ==
    DateText(month, day) \o <<" ">> \o TwoDigits(hours) \o <<":">>
        \o TwoDigits(minutes) \o <<" ">> \o period

SampleMonths == {6, 12}
SampleDays == {1, 30}
ClockHours == 1..12
SampleMinutes == {0, 30, 59}
Periods == {TextAM, TextPM}

DateTimeTexts ==
    {DateTimeText(mo, d, h, mi, p) :
        mo \in SampleMonths, d \in SampleDays, h \in ClockHours,
        mi \in SampleMinutes, p \in Periods}

DateTexts == {DateText(mo, d) : mo \in SampleMonths, d \in SampleDays}

ParseDate ==
    /\ call' = [fn |-> "parseDate", arg |-> call.arg, ret |-> parseDate(call.arg)]
    /\ UNCHANGED <<inputs, technician, kpis, allKpis,
                   files, parses, integration, validation, appVars>>

ParseDateTime ==
    /\ call' = [fn |-> "parseDateTime", arg |-> call.arg,
                ret |-> parseDateTime(call.arg)]
    /\ UNCHANGED <<inputs, technician, kpis, allKpis,
                   files, parses, integration, validation, appVars>>

NextDates == ParseDate \/ ParseDateTime

InitDates ==
    /\ NoRecords
    /\ call \in {Calling(UndefinedCell), Calling(StringCell(<<>>))}
                  \cup {Calling(StringCell(t)) : t \in DateTimeTexts \cup DateTexts}
    /\ files = "none"
    /\ parses = "none"
    /\ integration = "none"
    /\ validation = "none"
    /\ AppIdle

SpecDates == InitDates /\ [][NextDates]_vars

-----------------------------------------------------------------------------
(* C20 *)

\* the hour of the day a 12-hour clock reading denotes
HourOfDay(hours, period) ==
    IF period = TextPM THEN (IF hours = 12 THEN 12 ELSE hours + 12)
    ELSE (IF hours = 12 THEN 0 ELSE hours)

\* C20: parseDateTime of a cell MM/DD/YYYY HH:MM AM|PM returns that calendar
\* date at the hour of the day the 12-hour clock reading denotes (PM adds 12
\* except at 12, 12 AM is hour 0) and the given minutes.
C20_ParseDateTime ==
    call.fn = "parseDateTime" =>
        \A mo \in SampleMonths, d \in SampleDays, h \in ClockHours,
           mi \in SampleMinutes, p \in Periods :
            call.arg = StringCell(DateTimeText(mo, d, h, mi, p)) =>
                /\ ~call.ret.threw
                /\ call.ret.value =
                       [valid |-> TRUE, year |-> 2025, month |-> mo - 1,
                        day |-> d, hour |-> HourOfDay(h, p), minute |-> mi]

\* what the code returns instead: the hour as written, whatever the period
C20_PeriodIgnored ==
    call.fn = "parseDateTime" =>
        \A mo \in SampleMonths, d \in SampleDays, h \in ClockHours,
           mi \in SampleMinutes, p \in Periods :
            call.arg = StringCell(DateTimeText(mo, d, h, mi, p)) =>
                call.ret = Return([valid |-> TRUE, year |-> 2025, month |-> mo - 1,
                                   day |-> d, hour |-> h, minute |-> mi])

C20_DateOnly ==
    call.fn = "parseDate" /\ call.arg = StringCell(DateText(6, 30))
        => call.ret = Return([valid |-> TRUE, year |-> 2025, month |-> 5,
                              day |-> 30, hour |-> 0, minute |-> 0])

-----------------------------------------------------------------------------
(* fileParser: the four record parsers *)

\* A row is the object parseExcelFile builds from the header row: one cell
\* per column.  Status, Line Item and Appt Status are copied as they are
\* and are held as the KPI engine reads them; the columns the pipeline
\* only copies and never reads (Customer, Email, ...) are left out.

TextUndefined == <<"u", "n", "d", "e", "f", "i", "n", "e", "d">>
TextNull == <<"n", "u", "l", "l">>
TextYes == <<"Y", "e", "s">>

RECURSIVE DigitsOf(_)
DigitsOf(n) ==
    IF n < 10 THEN <<DigitChars[n + 1]>>
    ELSE DigitsOf(n \div 10) \o <<DigitChars[(n % 10) + 1]>>

\* String(cell); the numbers it is applied to are whole (job and
\* appointment numbers)
String(cell) ==
    CASE cell.type = "string" -> cell.text
      [] cell.type = "undefined" -> TextUndefined
      [] cell.type = "null" -> TextNull
      [] cell.type = "number" ->
            IF cell.num.num < 0 THEN <<"-">> \o DigitsOf(0 - Truncate(cell.num))
            ELSE DigitsOf(Truncate(cell.num))

\* parseInt(text, 10): leading white space, a sign, then digits
parseInt(text) ==
    LET t == Drop(text, LeadingWhiteSpace(text))
        signed == t # <<>> /\ t[1] \in {"-", "+"}
        u == IF signed THEN Tail(t) ELSE t
        k == LeadingDigits(u)
        magnitude == Number(DigitsValue(SubSeq(u, 1, k)))
    IN  IF k = 0 THEN NaN
        ELSE IF t[1] = "-" THEN Negate(magnitude) ELSE magnitude

\* x || 1 for a number x
OrOne(q) == IF IsNaN(q) \/ q.num = 0 THEN Number(1) ELSE q

\* typeof cell === 'number' ? cell : parseCurrency(String(cell))
CurrencyField(cell) ==
    IF cell.type = "number" THEN cell.num
    ELSE parseCurrency(StringCell(String(cell))).value

IsYes(cell) == cell = StringCell(TextYes)

parseOpportunityRow(row) ==
    LET date == parseDate(row.Date)
        owner == normalizeTechnicianName(row.OpportunityOwner)
    IN  IF date.threw \/ owner.threw THEN ThrowTypeError
        ELSE Return([date |-> date.value,
                     jobId |-> String(row.Job),
                     status |-> row.Status,
                     technician |-> owner.value,
                     membershipOpportunity |-> IsYes(row.MembershipOpportunity),
                     membershipSold |-> IsYes(row.MembershipSold),
                     revenue |-> CurrencyField(row.Revenue)])

parseLineItemRow(row) ==
    LET date == parseDate(row.InvoiceDate)
        owner == normalizeTechnicianName(row.OppOwner)
    IN  IF date.threw \/ owner.threw THEN ThrowTypeError
        ELSE Return([invoiceDate |-> date.value,
                     jobId |-> String(row.Job),
                     technician |-> owner.value,
                     lineItem |-> row.LineItem,
                     quantity |-> IF row.Quantity.type = "number"
                                  THEN row.Quantity.num
                                  ELSE OrOne(parseInt(String(row.Quantity))),
                     price |-> CurrencyField(row.Price)])

\* the cells go to the formatters as they are, numbers included
parseJobTimeRow(row) ==
    LET date == parseDate(row.FirstAppointment)
        owner == normalizeTechnicianName(row.OpportunityOwner)
        total == parseCurrency(row.Total)
        totalTime == parseTimeToMinutes(row.TotalTime)
        soldTime == parseTimeToMinutes(row.SoldTime)
        jobEfficiency == parsePercentage(row.JobEfficiency)
    IN  IF date.threw \/ owner.threw \/ total.threw \/ totalTime.threw
           \/ soldTime.threw \/ jobEfficiency.threw
        THEN ThrowTypeError
        ELSE Return([firstAppointment |-> date.value,
                     jobId |-> String(row.Job),
                     technician |-> owner.value,
                     total |-> total.value,
                     totalTime |-> totalTime.value,
                     soldTime |-> soldTime.value,
                     jobEfficiency |-> jobEfficiency.value])

parseAppointmentRow(row) ==
    LET date == parseDateTime(row.ScheduledFor)
        owner == normalizeTechnicianName(row.Technician)
    IN  IF date.threw \/ owner.threw THEN ThrowTypeError
        ELSE Return([appointmentId |-> String(row.Appointment),
                     scheduledFor |-> date.value,
                     jobId |-> String(row.Job),
                     apptStatus |-> row.ApptStatus,
                     technician |-> owner.value,
                     revenue |-> CurrencyField(row.Revenue)])

\* A promise: pending, fulfilled with a value, or rejected.
Pending == [state |-> "pending", value |-> <<>>]
Fulfilled(value) == [state |-> "fulfilled", value |-> value]
Rejected == [state |-> "rejected", value |-> <<>>]

parseRow(source, row) ==
    CASE source = "opportunities" -> parseOpportunityRow(row)
      [] source = "lineItems" -> parseLineItemRow(row)
      [] source = "jobTimes" -> parseJobTimeRow(row)
      [] source = "appointments" -> parseAppointmentRow(row)

\* parseExcelFile followed by rawData.map: the promise is rejected when
\* the file cannot be read or has no sheet of the expected name, and when
\* the mapping of a row throws
parseFile(source, file) ==
    IF ~file.readable \/ ~file.sheet THEN Rejected
    ELSE IF \E i \in 1..Len(file.rows) : parseRow(source, file.rows[i]).threw
         THEN Rejected
         ELSE Fulfilled([i \in 1..Len(file.rows) |->
                            parseRow(source, file.rows[i]).value])

-----------------------------------------------------------------------------
(* dataIntegrator: cleaning, extraction, processAndIntegrateFiles *)

\* p < q for numbers; false when either is NaN
LessThan(p, q) ==
    /\ ~IsNaN(p) /\ ~IsNaN(q)
    /\ p.num * q.den < q.num * p.den

\* !text for a string
EmptyText(text) == text = <<>>

\* !date: a Date object is truthy, Invalid Date included
NoDate(date) == FALSE

\* faulty variant: a revenue of zero is dropped as well
cleanOpportunitiesData_DropsZero(opps) ==
    SelectSeq(opps, LAMBDA opp :
        /\ ~(EmptyText(opp.jobId) \/ Falsy(opp.technician) \/ NoDate(opp.date))
        /\ LessThan(Number(0), opp.revenue))

cleanOpportunitiesData(opps) ==
    SelectSeq(opps, LAMBDA opp :
        /\ ~(EmptyText(opp.jobId) \/ Falsy(opp.technician) \/ NoDate(opp.date))
        /\ ~LessThan(opp.revenue, Number(0)))

cleanLineItemsData(items) ==
    SelectSeq(items, LAMBDA item :
        /\ ~(EmptyText(item.jobId) \/ Falsy(item.technician) \/ NoDate(item.invoiceDate))
        /\ ~LessThan(item.price, Number(0))
        /\ ~(LessThan(item.quantity, Number(0)) \/ item.quantity = Number(0)))

cleanJobTimesData(jobs) ==
    SelectSeq(jobs, LAMBDA job :
        /\ ~(EmptyText(job.jobId) \/ Falsy(job.technician) \/ NoDate(job.firstAppointment))
        /\ ~(LessThan(job.jobEfficiency, Number(0))
               \/ LessThan(Number(100), job.jobEfficiency)))

cleanAppointmentsData(appts) ==
    SelectSeq(appts, LAMBDA appt :
        /\ ~(EmptyText(appt.jobId) \/ Falsy(appt.technician) \/ NoDate(appt.scheduledFor))
        /\ ~LessThan(appt.revenue, Number(0)))

\* UTF-16 code units in ascending order, for the characters that occur in
\* names and job ids
CodeUnits ==
    <<" ", "-", "0", "1", "2", "3", "4", "5", "6", "7", "8", "9",
      "A", "B", "C", "D", "E", "F", "G", "H", "I", "J", "K", "L", "M",
      "N", "O", "P", "Q", "R", "S", "T", "U", "V", "W", "X", "Y", "Z",
      "a", "b", "c", "d", "e", "f", "g", "h", "i", "j", "k", "l", "m",
      "n", "o", "p", "q", "r", "s", "t", "u", "v", "w", "x", "y", "z">>

CodeUnit(c) == CHOOSE i \in 1..Len(CodeUnits) : CodeUnits[i] = c

\* a < b as sort() compares two strings: by code units, a proper prefix
\* first
RECURSIVE Precedes(_, _)
Precedes(a, b) ==
    IF b = <<>> THEN FALSE
    ELSE IF a = <<>> THEN TRUE
    ELSE IF a[1] = b[1] THEN Precedes(Tail(a), Tail(b))
    ELSE CodeUnit(a[1]) < CodeUnit(b[1])

\* Array.from(set).sort() for a set of strings
RECURSIVE sort(_)
sort(texts) ==
    IF texts = {} THEN <<>>
    ELSE LET first == CHOOSE a \in texts : \A b \in texts : ~Precedes(b, a)
         IN  <<first>> \o sort(texts \ {first})

Values(records, field) == {records[i][field] : i \in 1..Len(records)}

\* faulty variant: the names are compared without regard to case
extractTechnicianNames_IgnoreCase(opps, items, jobs, appts) ==
    LET names == {name.text : name \in
                     Values(opps, "technician") \cup Values(items, "technician")
                     \cup Values(jobs, "technician") \cup Values(appts, "technician")}
        RECURSIVE sortIgnoringCase(_)
        sortIgnoringCase(texts) ==
            IF texts = {} THEN <<>>
            ELSE LET first == CHOOSE a \in texts : \A b \in texts :
                                  ~Precedes(toLowerCase(b), toLowerCase(a))
                 IN  <<first>> \o sortIgnoringCase(texts \ {first})
    IN  sortIgnoringCase(names)

\* the technician values are strings here (a technician value that is
\* not a string is compared by its conversion to one, which is not
\* modelled)
extractTechnicianNames(opps, items, jobs, appts) ==
    sort({name.text : name \in
             Values(opps, "technician") \cup Values(items, "technician")
             \cup Values(jobs, "technician") \cup Values(appts, "technician")})

extractJobIds(opps, items, jobs, appts) ==
    sort(Values(opps, "jobId") \cup Values(items, "jobId")
         \cup Values(jobs, "jobId") \cup Values(appts, "jobId"))

IntegratedData(opps, items, jobs, appts) ==
    LET cleanedOpportunities == cleanOpportunitiesData(opps)
        cleanedLineItems == cleanLineItemsData(items)
        cleanedJobTimes == cleanJobTimesData(jobs)
        cleanedAppointments == cleanAppointmentsData(appts)
    IN  [opportunities |-> cleanedOpportunities,
         lineItems |-> cleanedLineItems,
         jobTimes |-> cleanedJobTimes,
         appointments |-> cleanedAppointments,
         technicianNames |-> extractTechnicianNames(
             cleanedOpportunities, cleanedLineItems,
             cleanedJobTimes, cleanedAppointments),
         jobIds |-> extractJobIds(
             cleanedOpportunities, cleanedLineItems,
             cleanedJobTimes, cleanedAppointments)]

NoData ==
    [opportunities |-> <<>>, lineItems |-> <<>>, jobTimes |-> <<>>,
     appointments |-> <<>>, technicianNames |-> <<>>, jobIds |-> <<>>]

TypeXlsx == "application/vnd.openxmlformats-officedocument.spreadsheetml.sheet"
TypeXls == "application/vnd.ms-excel"

FILE_VALIDATION_REQUIREMENTS ==
    [opportunities |->
        [sheetName |-> "Opportunities",
         requiredColumns |-> {"Date", "Job", "Customer", "Status",
                              "Opportunity Owner", "Revenue"}],
     lineItems |->
        [sheetName |-> "Sold Line Items",
         requiredColumns |-> {"Invoice Date", "Job", "Opp. Owner", "Line Item", "Price"}],
     jobTimes |->
        [sheetName |-> "Job Times",
         requiredColumns |-> {"First Appointment", "Job", "Job Status",
                              "Opportunity Owner", "Job Efficiency"}],
     appointments |->
        [sheetName |-> "Appointments",
         requiredColumns |-> {"Scheduled For", "Job", "Technician", "Appt Status",
                              "Revenue"}]]

AllColumns == UNION {FILE_VALIDATION_REQUIREMENTS[s].requiredColumns : s \in Sources}

\* A File: its MIME type and size in bytes, whether it can be read as a
\* workbook, whether the workbook has the sheet that is looked for, whether
\* that sheet has no row at all, the names in its header row, and its rows
\* as objects.  files.x is null when no file is uploaded for x.
AbsentFile ==
    [present |-> FALSE, type |-> "", size |-> 0, readable |-> FALSE,
     sheet |-> FALSE, blank |-> TRUE, headers |-> {}, rows |-> <<>>]

\* faulty variant: a parser is started for an absent file too
ProcessAndIntegrateFiles_ParsesAbsent ==
    /\ integration.state = "not called"
    /\ integration' = [state |-> "pending", value |-> NoData]
    /\ parses' = [s \in Sources |-> Pending]
    /\ UNCHANGED <<inputs, technician, kpis, allKpis, call, files, validation, appVars>>

\* processAndIntegrateFiles(files) is called: a parser is started for each
\* file that is present, an absent file stands as Promise.resolve([])
ProcessAndIntegrateFiles ==
    /\ integration.state = "not called"
    /\ integration' = [state |-> "pending", value |-> NoData]
    /\ parses' = [s \in Sources |->
                     IF files[s].present THEN Pending ELSE Fulfilled(<<>>)]
    /\ UNCHANGED <<inputs, technician, kpis, allKpis, call, files, validation, appVars>>

\* the parse of one file completes: parseExcelFile settles and the rows are
\* mapped
ParseCompletes(s) ==
    /\ integration.state # "not called"
    /\ parses[s].state = "pending"
    /\ parses' = [parses EXCEPT ![s] = parseFile(s, files[s])]
    /\ UNCHANGED <<inputs, technician, kpis, allKpis, call, files,
                   integration, validation, appVars>>

\* faulty variant: the function resumes as soon as one parse is fulfilled
IntegrationReturns_FirstSettled ==
    /\ integration.state = "pending"
    /\ \E s \in Sources : parses[s].state = "fulfilled"
    /\ integration' =
           Fulfilled(IntegratedData(parses["opportunities"].value,
                                    parses["lineItems"].value,
                                    parses["jobTimes"].value,
                                    parses["appointments"].value))
    /\ UNCHANGED <<inputs, technician, kpis, allKpis, call, files,
                   parses, validation, appVars>>

\* Promise.all is fulfilled, the function resumes after the await, cleans,
\* extracts and returns
IntegrationReturns ==
    /\ integration.state = "pending"
    /\ \A s \in Sources : parses[s].state = "fulfilled"
    /\ integration' =
           Fulfilled(IntegratedData(parses["opportunities"].value,
                                    parses["lineItems"].value,
                                    parses["jobTimes"].value,
                                    parses["appointments"].value))
    /\ UNCHANGED <<inputs, technician, kpis, allKpis, call, files,
                   parses, validation, appVars>>

\* Promise.all is rejected as soon as one parse is, the await throws and
\* the function's promise is rejected
IntegrationFails ==
    /\ integration.state = "pending"
    /\ \E s \in Sources : parses[s].state = "rejected"
    /\ integration' = [state |-> "rejected", value |-> NoData]
    /\ UNCHANGED <<inputs, technician, kpis, allKpis, call, files,
                   parses, validation, appVars>>

-----------------------------------------------------------------------------
(* The integrated data as the KPI engine reads it *)

DaysBeforeMonth == <<0, 31, 59, 90, 120, 151, 181, 212, 243, 273, 304, 334>>

\* date.valueOf(), by which dates are compared: ticks since the start of
\* 2025 (no leap day before 2029); Invalid Date, whose comparisons are all
\* false, lies before every window
getTime(date) ==
    IF ~date.valid THEN 0 - 1
    ELSE ((date.year - 2025) * 365 + DaysBeforeMonth[date.month + 1] + date.day)
             * DayTicks
         + ((date.hour * 60 + date.minute) * DayTicks) \div (24 * 60)

\* the amounts of the uploaded files of these specifications are whole
Whole(q) == q.num \div q.den

EngineOpportunities(opps) ==
    [i \in 1..Len(opps) |->
        [date |-> getTime(opps[i].date), jobId |-> opps[i].jobId,
         status |-> opps[i].status, technician |-> opps[i].technician,
         membershipOpportunity |-> opps[i].membershipOpportunity,
         membershipSold |-> opps[i].membershipSold,
         revenue |-> Whole(opps[i].revenue)]]

EngineLineItems(items) ==
    [i \in 1..Len(items) |->
        [invoiceDate |-> getTime(items[i].invoiceDate), jobId |-> items[i].jobId,
         technician |-> items[i].technician, lineItem |-> items[i].lineItem,
         quantity |-> Whole(items[i].quantity), price |-> Whole(items[i].price)]]

EngineJobTimes(jobs) ==
    [i \in 1..Len(jobs) |->
        [firstAppointment |-> getTime(jobs[i].firstAppointment),
         jobId |-> jobs[i].jobId, technician |-> jobs[i].technician,
         jobEfficiency |-> Whole(jobs[i].jobEfficiency)]]

EngineAppointments(appts) ==
    [i \in 1..Len(appts) |->
        [scheduledFor |-> getTime(appts[i].scheduledFor), jobId |-> appts[i].jobId,
         technician |-> appts[i].technician, apptStatus |-> appts[i].apptStatus,
         revenue |-> Whole(appts[i].revenue)]]

\* the caller of processAndIntegrateFiles hands the delivered collections
\* to calculateAllTechnicianKPIs with the selected week
CalculateIntegratedKPIs ==
    /\ integration.state = "fulfilled"
    /\ allKpis' = calculateAllTechnicianKPIs(
                      EngineOpportunities(integration.value.opportunities),
                      EngineLineItems(integration.value.lineItems),
                      EngineJobTimes(integration.value.jobTimes),
                      EngineAppointments(integration.value.appointments),
                      weekStart, weekEnd)
    /\ UNCHANGED <<inputs, technician, kpis, call, pipelineVars, appVars>>

NextIntegration ==
    \/ ProcessAndIntegrateFiles
    \/ \E s \in Sources : ParseCompletes(s)
    \/ IntegrationReturns
    \/ IntegrationFails

NextApp == NextIntegration \/ CalculateIntegratedKPIs

-----------------------------------------------------------------------------
(* Uploaded files *)

TextJune2 == DateText(6, 2)
TextJune2Morning == DateTimeText(6, 2, 10, 0, TextAM)
TextJakeH == <<"J", "a", "k", "e", " ", "H">>
TextZed == <<"Z", "e", "d">>
TextLowerAaron == <<"a", "a", "r", "o", "n">>
TextNo == <<"N", "o">>
TextJob9 == <<"9">>
TextJobJ1 == <<"J", "1">>
TextMinus5 == <<"-", "5">>
Text85Percent == <<"8", "5", "%">>
Text1h30m == <<"1", "h", " ", "3", "0", "m">>

OpportunityRow(owner, job, date, revenue) ==
    [Date |-> date, Job |-> job, Status |-> "Won", OpportunityOwner |-> owner,
     MembershipOpportunity |-> StringCell(TextYes),
     MembershipSold |-> StringCell(TextNo), Revenue |-> revenue]

LineItemRow(owner, job, date, quantity, price) ==
    [InvoiceDate |-> date, Job |-> job, OppOwner |-> owner,
     LineItem |-> TextHydroJetting, Quantity |-> quantity, Price |-> price]

JobTimeRow(owner, job, date, total, totalTime, soldTime, jobEfficiency) ==
    [FirstAppointment |-> date, Job |-> job, OpportunityOwner |-> owner,
     Total |-> total, TotalTime |-> totalTime, SoldTime |-> soldTime,
     JobEfficiency |-> jobEfficiency]

AppointmentRow(owner, job, date, revenue) ==
    [Appointment |-> NumberCell(Number(7)), ScheduledFor |-> date, Job |-> job,
     ApptStatus |-> "Completed", Technician |-> owner, Revenue |-> revenue]

ExcelFile(rows) ==
    [present |-> TRUE, type |-> TypeXlsx, size |-> 1024, readable |-> TRUE,
     sheet |-> TRUE, blank |-> FALSE, headers |-> AllColumns, rows |-> rows]

\* a file FileReader or XLSX.read fails on
UnreadableFile ==
    [ExcelFile(<<>>) EXCEPT !.readable = FALSE, !.sheet = FALSE,
                            !.blank = TRUE, !.headers = {}]

\* a workbook without the sheet the parser looks for
FileWithoutSheet ==
    [ExcelFile(<<>>) EXCEPT !.sheet = FALSE, !.blank = TRUE, !.headers = {}]

NotCalled == [state |-> "not called", value |-> NoData]

NotScored == <<[NoKpis EXCEPT !.technician = UndefinedCell]>>

SelectedWeek ==
    /\ weekStart = getTime(parseDate(StringCell(DateText(6, 1))).value)
    /\ weekEnd = getTime(parseDate(StringCell(DateText(6, 7))).value)

Uploaded(candidates) ==
    /\ opportunities = <<>>
    /\ lineItems = <<>>
    /\ jobTimes = <<>>
    /\ appointments = <<>>
    /\ SelectedWeek
    /\ technician = NoCall
    /\ kpis = NoKpis
    /\ allKpis = NotScored
    /\ call = NoCallYet
    /\ files \in [Sources -> {AbsentFile, UnreadableFile, FileWithoutSheet}
                                \cup UNION {candidates[s] : s \in Sources}]
    /\ \A s \in Sources : files[s].present /\ files[s].sheet => files[s] \in candidates[s]
    /\ parses = [s \in Sources |-> Pending]
    /\ integration = NotCalled
    /\ validation = "none"
    /\ AppIdle

\* well-formed files: names in several spellings and cases, job numbers as
\* numbers and as text, one opportunity the cleaning drops
SampleFiles ==
    [s \in Sources |->
        CASE s = "opportunities" ->
               {ExcelFile(<<OpportunityRow(StringCell(TextJake), NumberCell(Number(10)),
                                           StringCell(TextJune2), NumberCell(Number(300)))>>),
                ExcelFile(<<OpportunityRow(StringCell(TextZed), StringCell(TextJob9),
                                           StringCell(TextJune2), NumberCell(Number(300))),
                            OpportunityRow(StringCell(TextBob), StringCell(TextJobJ1),
                                           StringCell(TextJune2), StringCell(TextMinus5))>>)}
          [] s = "lineItems" ->
               {ExcelFile(<<LineItemRow(StringCell(TextLowerAaron), NumberCell(Number(10)),
                                        StringCell(TextJune2), NumberCell(Number(1)),
                                        NumberCell(Number(100)))>>),
                ExcelFile(<<>>)}
          [] s = "jobTimes" ->
               {ExcelFile(<<JobTimeRow(StringCell(TextJakeH), StringCell(TextJob9),
                                       StringCell(TextJune2), StringCell(TextDollars),
                                       StringCell(TextDuration), StringCell(Text1h30m),
                                       StringCell(Text85Percent))>>)}
          [] s = "appointments" ->
               {ExcelFile(<<AppointmentRow(StringCell(TextAaron), NumberCell(Number(10)),
                                           StringCell(TextJune2Morning),
                                           NumberCell(Number(300))),
                            AppointmentRow(StringCell(TextZed), StringCell(TextJobJ1),
                                           StringCell(TextJune2Morning),
                                           NumberCell(Number(300)))>>)}]

InitIntegrate == Uploaded(SampleFiles)

SpecIntegrate == InitIntegrate /\ [][NextApp]_vars

-----------------------------------------------------------------------------
(* C11, C12, C13 *)

Delivered == integration.state = "fulfilled"

Scored == allKpis # NotScored

\* the outcome of the parse of source s, whenever it completes
Outcome(s) == IF files[s].present THEN parseFile(s, files[s]) ELSE Fulfilled(<<>>)

\* the names of the technicians of the records parsed from the files that
\* are present
ParsedNames ==
    UNION {{Outcome(s).value[i].technician.text : i \in 1..Len(Outcome(s).value)} :
              s \in {x \in Sources : files[x].present}}

\* C11: a source whose file is absent counts as parsed with no records:
\* it never makes processAndIntegrateFiles fail, the delivered collection
\* of that source is empty, and technicianNames and the result of
\* calculateAllTechnicianKPIs hold only technicians with a record in a file
\* that is present.
C11_AbsentFile ==
    /\ \A s \in Sources : ~files[s].present =>
          /\ integration.state # "not called" => parses[s] = Fulfilled(<<>>)
          /\ Delivered => integration.value[s] = <<>>
    /\ integration.state = "rejected" =>
          \E s \in Sources : files[s].present /\ parses[s].state = "rejected"
    /\ Delivered =>
          \A i \in 1..Len(integration.value.technicianNames) :
              integration.value.technicianNames[i] \in ParsedNames
    /\ Scored =>
          \A i \in 1..Len(allKpis) : allKpis[i].technician.text \in ParsedNames

TextJakeHarter == nameMap[TextJake]
TextAaronMcDaniel == nameMap[TextAaron]

\* the line items file, the only one with technician "aaron", is absent
C11_Witness ==
    /\ Scored
    /\ ~files["lineItems"].present
    /\ \A s \in Sources \ {"lineItems"} : files[s].present
    /\ integration.value.lineItems = <<>>
    /\ integration.value.technicianNames = <<TextAaronMcDaniel, TextJakeHarter, TextZed>>
    /\ Len(allKpis) = 3

SomeRejected == \E s \in Sources : Outcome(s).state = "rejected"

\* C12: each of the four parses ends with the outcome its own file gives,
\* whatever the order of completion; the call waits while a parse is
\* running and none is rejected, builds the dataset only when all four are
\* fulfilled (the same dataset for every order), and ends rejected,
\* delivering no dataset, as soon as one parse is rejected.
C12_ParseJoin ==
    /\ \A s \in Sources :
          integration.state # "not called" /\ parses[s].state # "pending"
              => parses[s] = Outcome(s)
    /\ Delivered =>
          /\ \A s \in Sources : parses[s].state = "fulfilled"
          /\ integration.value =
                 IntegratedData(Outcome("opportunities").value,
                                Outcome("lineItems").value,
                                Outcome("jobTimes").value,
                                Outcome("appointments").value)
    /\ ~Delivered => integration.value = NoData
    /\ SomeRejected => ~Delivered
    /\ integration.state = "pending" =>
          /\ (ENABLED IntegrationFails)
                 <=> \E s \in Sources : parses[s].state = "rejected"
          /\ (ENABLED IntegrationReturns)
                 <=> \A s \in Sources : parses[s].state = "fulfilled"

\* all four files are present, every parse is fulfilled and the dataset is
\* delivered
C12_Witness ==
    /\ Delivered
    /\ \A s \in Sources : files[s].present
    /\ Len(integration.value.opportunities) = 1
    /\ Len(integration.value.appointments) = 2

\* a call rejected while other parses are still running
C12_RejectedEarly ==
    /\ integration.state = "rejected"
    /\ \E s \in Sources : parses[s].state = "pending"

CleanedValues(field) ==
    Values(integration.value.opportunities, field)
        \cup Values(integration.value.lineItems, field)
        \cup Values(integration.value.jobTimes, field)
        \cup Values(integration.value.appointments, field)

Ascending(texts) ==
    \A i, j \in 1..Len(texts) : i < j => Precedes(texts[i], texts[j])

\* C13: technicianNames holds exactly the technician values of the four
\* cleaned collections, each once, in ascending order of code units (upper
\* case before lower case); jobIds holds exactly their jobId values in the
\* same order; a value that occurs only in records the cleaning dropped is
\* in neither.
C13_NamesAndJobIds ==
    Delivered =>
        LET names == integration.value.technicianNames
            ids == integration.value.jobIds
        IN  /\ {names[i] : i \in 1..Len(names)}
                 = {name.text : name \in CleanedValues("technician")}
            /\ Ascending(names)
            /\ {ids[i] : i \in 1..Len(ids)} = CleanedValues("jobId")
            /\ Ascending(ids)

\* "Bob" occurs only in the opportunity dropped for its negative revenue;
\* "Zed" sorts before "aaron", and job "10" before job "9"
C13_Witness ==
    /\ Delivered
    /\ TextBob \in ParsedNames
    /\ integration.value.technicianNames
         = <<TextAaronMcDaniel, TextJakeHarter, TextZed, TextLowerAaron>>
    /\ integration.value.jobIds = <<<<"1", "0">>, TextJob9, TextJobJ1>>

-----------------------------------------------------------------------------
(* Uploaded files with defective rows *)

MaxRows == 2

Text150Percent == <<"1", "5", "0", "%">>
TextZero == <<"0">>

Num(n) == NumberCell(Number(n))
Str(text) == StringCell(text)

\* one good row and rows that differ from it in one cell
OpportunityRows ==
    {OpportunityRow(Str(TextJake), job, Str(TextJune2), Num(300)) :
        job \in {Num(10), UndefinedCell, Str(<<>>)}}
    \cup {OpportunityRow(owner, Num(10), Str(TextJune2), Num(300)) :
        owner \in {UndefinedCell, Str(<<" ", " ">>)}}
    \cup {OpportunityRow(Str(TextJake), Num(10), date, Num(300)) :
        date \in {UndefinedCell, Str(<<>>)}}
    \cup {OpportunityRow(Str(TextJake), Num(10), Str(TextJune2), revenue) :
        revenue \in {Str(TextMinus5), Num(0), Str(TextDollars)}}

LineItemRows ==
    {LineItemRow(Str(TextJake), Num(10), Str(TextJune2), quantity, Num(100)) :
        quantity \in {Num(1), Num(0), Num(0 - 2), NumberCell(Divide(1, 2)),
                      Str(TextZero), Str(TextMinus5)}}
    \cup {LineItemRow(Str(TextJake), Num(10), Str(TextJune2), Num(1), price) :
        price \in {Str(TextMinus5), Num(0 - 1), Num(0)}}
    \cup {LineItemRow(Str(TextJake), UndefinedCell, Str(TextJune2), Num(1), Num(100)),
          LineItemRow(Str(TextJake), Num(10), UndefinedCell, Num(1), Num(100))}

JobTimeRows ==
    {JobTimeRow(Str(TextJake), Num(10), Str(TextJune2), Str(TextDollars),
                Str(TextDuration), Str(Text1h30m), efficiency) :
        efficiency \in {Str(Text85Percent), Str(Text150Percent), Str(TextMinus5),
                        Num(85), Num(0), UndefinedCell}}
    \cup {JobTimeRow(Str(TextJake), Num(10), Str(TextJune2), Num(300),
                     Str(TextDuration), Str(Text1h30m), Str(Text85Percent)),
          JobTimeRow(Str(TextJake), Num(10), Str(TextJune2), Str(TextDollars),
                     Num(90), Str(Text1h30m), Str(Text85Percent)),
          JobTimeRow(Str(TextJake), Num(10), UndefinedCell, Str(TextDollars),
                     Str(TextDuration), Str(Text1h30m), Str(Text85Percent))}

AppointmentRows ==
    {AppointmentRow(Str(TextJake), Num(10), Str(TextJune2Morning), revenue) :
        revenue \in {Num(300), Str(TextMinus5), Num(0 - 1), UndefinedCell}}
    \cup {AppointmentRow(Str(TextJake), job, Str(TextJune2Morning), Num(300)) :
        job \in {UndefinedCell, Str(<<>>)}}
    \cup {AppointmentRow(Str(TextJake), Num(10), date, Num(300)) :
        date \in {UndefinedCell, Str(TextJune2)}}

RowsOf(s) ==
    CASE s = "opportunities" -> OpportunityRows
      [] s = "lineItems" -> LineItemRows
      [] s = "jobTimes" -> JobTimeRows
      [] s = "appointments" -> AppointmentRows

\* the good row of each source
GoodRow(s) ==
    CASE s = "opportunities" ->
             OpportunityRow(Str(TextJake), Num(10), Str(TextJune2), Num(300))
      [] s = "lineItems" ->
             LineItemRow(Str(TextJake), Num(10), Str(TextJune2), Num(1), Num(100))
      [] s = "jobTimes" ->
             JobTimeRow(Str(TextJake), Num(10), Str(TextJune2), Str(TextDollars),
                        Str(TextDuration), Str(Text1h30m), Str(Text85Percent))
      [] s = "appointments" ->
             AppointmentRow(Str(TextJake), Num(10), Str(TextJune2Morning), Num(300))

\* four readable files: one holds up to MaxRows rows of any kind, the other
\* three hold their good row
InitClean ==
    /\ opportunities = <<>>
    /\ lineItems = <<>>
    /\ jobTimes = <<>>
    /\ appointments = <<>>
    /\ SelectedWeek
    /\ technician = NoCall
    /\ kpis = NoKpis
    /\ allKpis = NotScored
    /\ call = NoCallYet
    /\ \E varied \in Sources :
          \E rows \in SeqsUpTo(RowsOf(varied), MaxRows) :
              files = [s \in Sources |->
                          IF s = varied THEN ExcelFile(rows)
                          ELSE ExcelFile(<<GoodRow(s)>>)]
    /\ parses = [s \in Sources |-> Pending]
    /\ integration = NotCalled
    /\ validation = "none"
    /\ AppIdle

SpecClean == InitClean /\ [][NextIntegration]_vars

-----------------------------------------------------------------------------
(* C14, C15, C16 *)

AtLeast(p, q) == ~IsNaN(p) /\ ~IsNaN(q) /\ p.num * q.den >= q.num * p.den

PrimaryDate(s, record) ==
    CASE s = "opportunities" -> record.date
      [] s = "lineItems" -> record.invoiceDate
      [] s = "jobTimes" -> record.firstAppointment
      [] s = "appointments" -> record.scheduledFor

\* jobId and technician are not the empty string and the date field holds
\* a Date (the parsers always store one)
HasIdentity(s, record) ==
    /\ record.jobId # <<>>
    /\ record.technician # StringCell(<<>>)
    /\ PrimaryDate(s, record).valid \in BOOLEAN

RangesHold(s, record) ==
    CASE s = "opportunities" -> AtLeast(record.revenue, Number(0))
      [] s = "lineItems" ->
            /\ AtLeast(record.price, Number(0))
            /\ AtLeast(record.quantity, Number(0)) /\ record.quantity # Number(0)
      [] s = "jobTimes" ->
            /\ AtLeast(record.jobEfficiency, Number(0))
            /\ AtLeast(Number(100), record.jobEfficiency)
      [] s = "appointments" -> AtLeast(record.revenue, Number(0))

Retained(s, records) ==
    SelectSeq(records, LAMBDA record : HasIdentity(s, record) /\ RangesHold(s, record))

Settled == integration.state \in {"fulfilled", "rejected"}

JobCell(s, row) == row.Job

OwnerCell(s, row) ==
    CASE s = "opportunities" -> row.OpportunityOwner
      [] s = "lineItems" -> row.OppOwner
      [] s = "jobTimes" -> row.OpportunityOwner
      [] s = "appointments" -> row.Technician

DateCell(s, row) ==
    CASE s = "opportunities" -> row.Date
      [] s = "lineItems" -> row.InvoiceDate
      [] s = "jobTimes" -> row.FirstAppointment
      [] s = "appointments" -> row.ScheduledFor

\* undefined, null, the empty string or white space only
MissingCell(cell) ==
    \/ cell.type \in {"undefined", "null"}
    \/ cell.type = "string" /\ trim(cell.text) = <<>>

\* a row with a record-level defect: an identity cell is missing, or a
\* number the parser read from it is out of range
Defective(s, row) ==
    \/ MissingCell(JobCell(s, row))
    \/ MissingCell(OwnerCell(s, row))
    \/ MissingCell(DateCell(s, row))
    \/ ~parseRow(s, row).threw /\ ~RangesHold(s, parseRow(s, row).value)

\* the numeric cells of a job times row
JobTimeCells(row) == {row.Total, row.TotalTime, row.SoldTime, row.JobEfficiency}

NoNativeJobTimeNumbers ==
    \A i \in 1..Len(files["jobTimes"].rows) :
        \A cell \in JobTimeCells(files["jobTimes"].rows[i]) : cell.type # "number"

\* C15: whatever record-level defects the rows of four readable files
\* have, processAndIntegrateFiles does not fail, and the cleaned collection
\* of each source holds exactly the parsed records of its rows without a
\* defect, in their order.
C15_DefectiveRows ==
    Settled /\ NoNativeJobTimeNumbers =>
        /\ Delivered
        /\ \A s \in Sources :
              LET sound == SelectSeq(files[s].rows, LAMBDA row : ~Defective(s, row))
              IN  integration.value[s]
                      = [i \in 1..Len(sound) |-> parseRow(s, sound[i]).value]

\* what holds instead: only out-of-range numbers and empty job or
\* technician text are dropped silently
C15_RangeDefectsDropped ==
    Delivered =>
        \A s \in Sources : \A i \in 1..Len(integration.value[s]) :
            RangesHold(s, integration.value[s][i])

\* the cells of a row that hold an amount, a percentage or a duration,
\* each with the field of the parsed record it fills
NumericCells(s, row, record) ==
    CASE s = "opportunities" -> {<<row.Revenue, record.revenue>>}
      [] s = "lineItems" -> {<<row.Price, record.price>>}
      [] s = "jobTimes" -> {<<row.Total, record.total>>,
                            <<row.TotalTime, record.totalTime>>,
                            <<row.SoldTime, record.soldTime>>,
                            <<row.JobEfficiency, record.jobEfficiency>>}
      [] s = "appointments" -> {<<row.Revenue, record.revenue>>}

\* C16: in a file whose rows all have a date and a technician, the parse
\* does not fail, and every amount, percentage and duration cell that is a
\* native number is taken over unchanged.
C16_NativeNumbers ==
    \A s \in Sources :
        /\ integration.state # "not called"
        /\ parses[s].state # "pending"
        /\ \A i \in 1..Len(files[s].rows) :
              /\ DateCell(s, files[s].rows[i]).type = "string"
              /\ OwnerCell(s, files[s].rows[i]).type = "string"
        => /\ parses[s].state = "fulfilled"
           /\ \A i \in 1..Len(files[s].rows) :
                 \A pair \in NumericCells(s, files[s].rows[i], parses[s].value[i]) :
                     pair[1].type = "number" => pair[2] = pair[1].num

\* what holds instead: the claim holds of the three parsers that test the
\* type of the cell
C16_TypeChecked ==
    \A s \in Sources \ {"jobTimes"} :
        /\ integration.state # "not called"
        /\ parses[s].state # "pending"
        /\ \A i \in 1..Len(files[s].rows) :
              /\ DateCell(s, files[s].rows[i]).type = "string"
              /\ OwnerCell(s, files[s].rows[i]).type = "string"
        => /\ parses[s].state = "fulfilled"
           /\ \A i \in 1..Len(files[s].rows) :
                 \A pair \in NumericCells(s, files[s].rows[i], parses[s].value[i]) :
                     pair[1].type = "number" => pair[2] = pair[1].num

-----------------------------------------------------------------------------
(* dataIntegrator: validateUploadedFiles, validateFile *)

maxSizeMB == 10

isValidExcelFile(file) == file.type \in {TypeXlsx, TypeXls}

isValidFileSize(file) == file.size <= maxSizeMB * 1024 * 1024

\* the order in which validateUploadedFiles goes through the files
SourceOrder == <<"opportunities", "lineItems", "jobTimes", "appointments">>

Error(s, kind) == [file |-> s, kind |-> kind]

\* validateFileStructure: the error it rejects with, "" when it resolves
validateFileStructure(file, expectedSheet, requiredColumns) ==
    IF ~file.readable THEN "Failed to read file for validation"
    ELSE IF ~file.sheet THEN "Required sheet not found"
    ELSE IF file.blank THEN "File is empty"
    ELSE IF requiredColumns \ file.headers # {} THEN "Missing required columns"
    ELSE ""

\* faulty variant: a rejection of the structure check is not caught
validateFile_StructureUnchecked(file, fileType) ==
    IF ~isValidExcelFile(file) THEN <<Error(fileType, "must be an Excel file")>>
    ELSE IF ~isValidFileSize(file) THEN <<Error(fileType, "size must be under 10MB")>>
    ELSE <<>>

\* the errors of validateFile
validateFile(file, fileType) ==
    IF ~isValidExcelFile(file) THEN <<Error(fileType, "must be an Excel file")>>
    ELSE IF ~isValidFileSize(file) THEN <<Error(fileType, "size must be under 10MB")>>
    ELSE LET requirements == FILE_VALIDATION_REQUIREMENTS[fileType]
             rejection == validateFileStructure(file, requirements.sheetName,
                                                requirements.requiredColumns)
         IN  IF rejection # "" THEN <<Error(fileType, rejection)>> ELSE <<>>

\* the files from position i of SourceOrder on that are present
PresentFrom(i) == {j \in i..Len(SourceOrder) : files[SourceOrder[j]].present}

\* where validateUploadedFiles stands once the files before position i are
\* done: awaiting validateFile of the next present file, or returned
Proceed(i, errors) ==
    IF PresentFrom(i) = {}
    THEN [pc |-> "returned", awaiting |-> 0, errors |-> errors,
          isValid |-> errors = <<>>]
    ELSE [pc |-> "awaiting",
          awaiting |-> CHOOSE j \in PresentFrom(i) : \A k \in PresentFrom(i) : j <= k,
          errors |-> errors, isValid |-> FALSE]

NotValidated == [pc |-> "not called", awaiting |-> 0, errors |-> <<>>, isValid |-> FALSE]

\* validateUploadedFiles(files) is called: the four presence checks, then
\* validateFile of the first file that is present
ValidateUploadedFiles ==
    /\ validation.pc = "not called"
    /\ LET absent == SelectSeq(SourceOrder, LAMBDA s : ~files[s].present)
       IN  validation' = Proceed(1, [i \in 1..Len(absent) |->
                                        Error(absent[i], "is required")])
    /\ UNCHANGED <<inputs, technician, kpis, allKpis, call, files, parses, integration, appVars>>

\* the awaited validateFile settles: its errors are appended and the
\* function goes on to the next present file, or returns
FileValidated ==
    /\ validation.pc = "awaiting"
    /\ LET s == SourceOrder[validation.awaiting]
       IN  validation' = Proceed(validation.awaiting + 1,
                                 validation.errors \o validateFile(files[s], s))
    /\ UNCHANGED <<inputs, technician, kpis, allKpis, call, files, parses, integration, appVars>>

NextValidation == ValidateUploadedFiles \/ FileValidated

\* what can be uploaded for one source
CandidateFiles ==
    {AbsentFile, ExcelFile(<<>>), UnreadableFile, FileWithoutSheet,
     [ExcelFile(<<>>) EXCEPT !.type = TypeXls, !.size = maxSizeMB * 1024 * 1024],
     [ExcelFile(<<>>) EXCEPT !.size = maxSizeMB * 1024 * 1024 + 1],
     [ExcelFile(<<>>) EXCEPT !.type = "text/csv"],
     [ExcelFile(<<>>) EXCEPT !.blank = TRUE, !.headers = {}],
     [ExcelFile(<<>>) EXCEPT !.headers = AllColumns \ {"Job"}]}

InitValidation ==
    /\ NoRecords
    /\ call = NoCallYet
    /\ files \in [Sources -> CandidateFiles]
    /\ parses = [s \in Sources |-> Pending]
    /\ integration = NotCalled
    /\ validation = NotValidated
    /\ AppIdle

SpecValidation == InitValidation /\ [][NextValidation]_vars

-----------------------------------------------------------------------------
(* C17 *)

\* the three checks of the claim
PassesChecks(s) ==
    /\ files[s].type \in {TypeXlsx, TypeXls}
    /\ files[s].size <= 10 * 1024 * 1024
    /\ files[s].readable /\ files[s].sheet /\ ~files[s].blank
    /\ FILE_VALIDATION_REQUIREMENTS[s].requiredColumns \subseteq files[s].headers

ErrorsOf(s) ==
    {i \in 1..Len(validation.errors) : validation.errors[i].file = s}

\* C17: validateUploadedFiles returns isValid exactly when all four files
\* are present and each passes the type, size and structure checks;
\* otherwise errors is not empty; it holds a 'required' error for every
\* absent file, an error for every present file that fails a check and none
\* for a present file that passes, whatever the other files are.
C17_Validation ==
    validation.pc = "returned" =>
        /\ validation.isValid
              <=> \A s \in Sources : files[s].present /\ PassesChecks(s)
        /\ ~validation.isValid => validation.errors # <<>>
        /\ \A s \in Sources :
              /\ ~files[s].present =>
                    \E i \in ErrorsOf(s) : validation.errors[i].kind = "is required"
              /\ files[s].present /\ ~PassesChecks(s) =>
                    \E i \in ErrorsOf(s) : validation.errors[i].kind # "is required"
              /\ files[s].present /\ PassesChecks(s) => ErrorsOf(s) = {}

\* one file absent, one of the wrong type, one without its sheet, one
\* good: three errors
C17_Witness ==
    /\ validation.pc = "returned"
    /\ ~files["opportunities"].present
    /\ files["lineItems"].type = "text/csv"
    /\ files["jobTimes"] = FileWithoutSheet
    /\ files["appointments"] = ExcelFile(<<>>)
    /\ Len(validation.errors) = 3
    /\ ~validation.isValid

-----------------------------------------------------------------------------
(* getDataSummary *)

\* date.getTime() of a valid calendar date, in minutes since the start of
\* 2025
Minutes(date) ==
    ((date.year - 2025) * 365 + DaysBeforeMonth[date.month + 1] + date.day)
        * 24 * 60
    + date.hour * 60 + date.minute

\* records.map(record => record[field])
DateField(records, field) == [i \in 1..Len(records) |-> records[i][field]]

\* new Date(Math.min(...)) and new Date(Math.max(...)) over a non-empty
\* list of valid dates
EarliestOf(dates) ==
    CHOOSE d \in {dates[i] : i \in 1..Len(dates)} :
        \A i \in 1..Len(dates) : Minutes(d) <= Minutes(dates[i])

LatestOf(dates) ==
    CHOOSE d \in {dates[i] : i \in 1..Len(dates)} :
        \A i \in 1..Len(dates) : Minutes(dates[i]) <= Minutes(d)

DateRangeOf(allDates) ==
    IF Len(allDates) > 0
    THEN [start |-> EarliestOf(allDates), end |-> LatestOf(allDates)]
    ELSE [start |-> NullCell, end |-> NullCell]

SummaryOf(data, allDates) ==
    [totalOpportunities |-> Len(data.opportunities),
     totalLineItems |-> Len(data.lineItems),
     totalJobTimes |-> Len(data.jobTimes),
     totalAppointments |-> Len(data.appointments),
     uniqueTechnicians |-> Len(data.technicianNames),
     uniqueJobs |-> Len(data.jobIds),
     dateRange |-> DateRangeOf(allDates)]

FourDateFields(data) ==
    DateField(data.opportunities, "date")
        \o DateField(data.lineItems, "invoiceDate")
        \o DateField(data.jobTimes, "firstAppointment")
        \o DateField(data.appointments, "scheduledFor")

\* faulty variant: Invalid Date is not filtered out
getDataSummary_KeepsInvalid(data) == SummaryOf(data, FourDateFields(data))

\* every date here is a Date object, so the filter keeps the valid ones
getDataSummary(data) ==
    SummaryOf(data, SelectSeq(FourDateFields(data), LAMBDA date : date.valid))

\* getDataSummary is called on the delivered dataset
GetDataSummary ==
    /\ integration.state = "fulfilled"
    /\ call.fn = "none"
    /\ call' = [fn |-> "getDataSummary", arg |-> "data",
                ret |-> getDataSummary(integration.value)]
    /\ UNCHANGED <<inputs, technician, kpis, allKpis, files, parses,
                   integration, validation, appVars>>

NextSummary == NextIntegration \/ GetDataSummary

TextBadDate == <<"x">>
TextDec30 == DateText(12, 30)
TextDec30Evening == DateTimeText(12, 30, 11, 59, TextPM)

SummaryDates == {TextJune2, TextDec30, TextBadDate}

\* files whose rows are dated early, late or not at all
SummaryFiles ==
    [s \in Sources |->
        CASE s = "opportunities" ->
               {ExcelFile(<<OpportunityRow(Str(TextJake), Num(10), Str(d), Num(300))>>) :
                    d \in SummaryDates}
               \cup {ExcelFile(<<OpportunityRow(Str(TextJake), Num(10), Str(TextDec30), Num(300)),
                                 OpportunityRow(Str(TextZed), Num(11), Str(d), Num(300))>>) :
                    d \in SummaryDates}
          [] s = "lineItems" ->
               {ExcelFile(<<LineItemRow(Str(TextJake), Num(10), Str(d), Num(1), Num(100))>>) :
                    d \in SummaryDates}
          [] s = "jobTimes" ->
               {ExcelFile(<<JobTimeRow(Str(TextJake), Num(10), Str(d), Str(TextDollars),
                                       Str(TextDuration), Str(Text1h30m),
                                       Str(Text85Percent))>>) :
                    d \in {TextJune2, TextBadDate}}
          [] s = "appointments" ->
               {ExcelFile(<<AppointmentRow(Str(TextJake), Num(10), Str(d), Num(300))>>) :
                    d \in {TextJune2Morning, TextDec30Evening, TextBadDate}}]

InitSummary == Uploaded(SummaryFiles)

SpecSummary == InitSummary /\ [][NextSummary]_vars

-----------------------------------------------------------------------------
(* C21 *)

Summarised == call.fn = "getDataSummary"

ValidDatesOf(data) ==
    {d \in {data.opportunities[i].date : i \in 1..Len(data.opportunities)}
           \cup {data.lineItems[i].invoiceDate : i \in 1..Len(data.lineItems)}
           \cup {data.jobTimes[i].firstAppointment : i \in 1..Len(data.jobTimes)}
           \cup {data.appointments[i].scheduledFor : i \in 1..Len(data.appointments)} :
        d.valid}

\* C21: getDataSummary returns the length of each of the four cleaned
\* collections and of technicianNames and jobIds; dateRange.start and
\* dateRange.end are the earliest and the latest of the valid dates of the
\* four date fields, Invalid Date is ignored, start <= end, and both are
\* null exactly when there is no valid date.
C21_DataSummary ==
    Summarised =>
        LET data == integration.value
            summary == call.ret
            valid == ValidDatesOf(data)
        IN  /\ summary.totalOpportunities = Len(data.opportunities)
            /\ summary.totalLineItems = Len(data.lineItems)
            /\ summary.totalJobTimes = Len(data.jobTimes)
            /\ summary.totalAppointments = Len(data.appointments)
            /\ summary.uniqueTechnicians = Len(data.technicianNames)
            /\ summary.uniqueJobs = Len(data.jobIds)
            /\ (valid = {}) <=> (summary.dateRange.start = NullCell)
            /\ (valid = {}) <=> (summary.dateRange.end = NullCell)
            /\ valid # {} =>
                  /\ summary.dateRange.start \in valid
                  /\ summary.dateRange.end \in valid
                  /\ \A d \in valid :
                        /\ Minutes(summary.dateRange.start) <= Minutes(d)
                        /\ Minutes(d) <= Minutes(summary.dateRange.end)
                  /\ Minutes(summary.dateRange.start)
                         <= Minutes(summary.dateRange.end)

\* a summary over valid dates of two different days and an Invalid Date
C21_Witness ==
    /\ Summarised
    /\ \E i \in 1..Len(integration.value.opportunities) :
            ~integration.value.opportunities[i].date.valid
    /\ call.ret.dateRange.start # NullCell
    /\ call.ret.dateRange.start # call.ret.dateRange.end
    /\ call.ret.totalOpportunities = 2

\* a summary with no valid date
C21_NoDates ==
    /\ Summarised
    /\ call.ret.totalOpportunities > 0
    /\ call.ret.dateRange.start = NullCell

-----------------------------------------------------------------------------
(* useAppState: the app state and its reducer *)

\* error: null, or the messages that were joined into the error string
NoError == [null |-> TRUE, messages |-> <<>>]
ErrorOf(messages) == [null |-> FALSE, messages |-> messages]

\* A File object is held by reference: the app state holds the names of
\* the files, "null" where there is none.
NoFiles == [s \in Sources |-> "null"]

\* a week range
Week(startText, endText) ==
    [start |-> getTime(parseDate(StringCell(startText)).value),
     end |-> getTime(parseDate(StringCell(endText)).value)]

\* the week of Monday 2 June 2025 and the week after it
FirstWeek == Week(DateText(6, 2), DateText(6, 8))
SecondWeek == Week(DateText(6, 9), DateText(6, 15))

\* getCurrentWeek() as evaluated when the module is loaded
initialState ==
    [uploadedFiles |-> NoFiles,
     selectedWeek |-> FirstWeek,
     technicians |-> <<>>,
     isProcessing |-> FALSE,
     error |-> NoError,
     isDataLoaded |-> FALSE]

\* faulty variant: SET_FILES clears the processing flag as well
appReducer_FilesStopProcessing(st, action) ==
    CASE action.type = "SET_FILES" ->
            [st EXCEPT !.uploadedFiles = action.payload, !.isDataLoaded = FALSE,
                       !.technicians = <<>>, !.error = NoError,
                       !.isProcessing = FALSE]
      [] action.type = "SET_WEEK" ->
            [st EXCEPT !.selectedWeek = action.payload, !.isDataLoaded = FALSE,
                       !.technicians = <<>>, !.error = NoError]
      [] action.type = "SET_TECHNICIANS" ->
            [st EXCEPT !.technicians = action.payload, !.isDataLoaded = TRUE,
                       !.error = NoError]
      [] action.type = "SET_PROCESSING" -> [st EXCEPT !.isProcessing = action.payload]
      [] action.type = "SET_ERROR" ->
            [st EXCEPT !.error = action.payload, !.isProcessing = FALSE]
      [] action.type = "SET_DATA_LOADED" -> [st EXCEPT !.isDataLoaded = action.payload]
      [] action.type = "RESET_STATE" -> initialState
      [] OTHER -> st

appReducer(st, action) ==
    CASE action.type = "SET_FILES" ->
            [st EXCEPT !.uploadedFiles = action.payload, !.isDataLoaded = FALSE,
                       !.technicians = <<>>, !.error = NoError]
      [] action.type = "SET_WEEK" ->
            [st EXCEPT !.selectedWeek = action.payload, !.isDataLoaded = FALSE,
                       !.technicians = <<>>, !.error = NoError]
      [] action.type = "SET_TECHNICIANS" ->
            [st EXCEPT !.technicians = action.payload, !.isDataLoaded = TRUE,
                       !.error = NoError]
      [] action.type = "SET_PROCESSING" -> [st EXCEPT !.isProcessing = action.payload]
      [] action.type = "SET_ERROR" ->
            [st EXCEPT !.error = action.payload, !.isProcessing = FALSE]
      [] action.type = "SET_DATA_LOADED" -> [st EXCEPT !.isDataLoaded = action.payload]
      [] action.type = "RESET_STATE" -> initialState
      [] OTHER -> st

\* dispatch(action): the state becomes appReducer(state, action)
Dispatch(action) ==
    /\ state' = appReducer(state, action)
    /\ call' = [fn |-> "appReducer", arg |-> [state |-> state, action |-> action],
                ret |-> state']
    /\ UNCHANGED <<inputs, technician, kpis, allKpis, files, parses,
                   integration, validation, fileStates, validationErrors,
                   dataSummary, validations, runs, effectDue, started, changes>>

FourFiles == [s \in Sources |-> s]

OneTechnician == <<[NoKpis EXCEPT !.technician = StringCell(TextJake)]>>

FailedToProcess == ErrorOf(<<"Failed to process files">>)

AppActions ==
    {[type |-> "SET_FILES", payload |-> f] : f \in {NoFiles, FourFiles}}
    \cup {[type |-> "SET_WEEK", payload |-> w] : w \in {FirstWeek, SecondWeek}}
    \cup {[type |-> "SET_TECHNICIANS", payload |-> t] : t \in {<<>>, OneTechnician}}
    \cup {[type |-> "SET_PROCESSING", payload |-> b] : b \in BOOLEAN}
    \cup {[type |-> "SET_ERROR", payload |-> e] : e \in {NoError, FailedToProcess}}
    \cup {[type |-> "SET_DATA_LOADED", payload |-> b] : b \in BOOLEAN}
    \cup {[type |-> "RESET_STATE", payload |-> FALSE],
          [type |-> "UNKNOWN", payload |-> FALSE]}

NextReducer == \E action \in AppActions : Dispatch(action)

AppStates ==
    {[uploadedFiles |-> f, selectedWeek |-> w, technicians |-> t,
      isProcessing |-> p, error |-> e, isDataLoaded |-> l] :
        f \in {NoFiles, FourFiles}, w \in {FirstWeek, SecondWeek},
        t \in {<<>>, OneTechnician}, p \in BOOLEAN,
        e \in {NoError, FailedToProcess}, l \in BOOLEAN}

InitReducer ==
    /\ NoRecords
    /\ call = NoCallYet
    /\ files = "none"
    /\ parses = "none"
    /\ integration = "none"
    /\ validation = "none"
    /\ state \in AppStates
    /\ fileStates = "none"
    /\ validationErrors = "none"
    /\ dataSummary = "none"
    /\ validations = "none"
    /\ runs = "none"
    /\ effectDue = FALSE
    /\ started = 0
    /\ changes = 0

SpecReducer == InitReducer /\ [][NextReducer]_vars

-----------------------------------------------------------------------------
(* C24 *)

Reduced(type) == call.fn = "appReducer" /\ call.arg.action.type = type

\* C24: SET_FILES and SET_WEEK leave technicians empty, isDataLoaded false
\* and error null, store the payload in uploadedFiles respectively
\* selectedWeek and change no other field; no action but SET_TECHNICIANS
\* gives technicians a new non-empty value, and SET_TECHNICIANS sets
\* isDataLoaded to true.
C24_ReducerFrame ==
    call.fn = "appReducer" =>
        LET before == call.arg.state
            action == call.arg.action
        IN  /\ state = call.ret
            /\ Reduced("SET_FILES") =>
                  state = [uploadedFiles |-> action.payload,
                           selectedWeek |-> before.selectedWeek,
                           technicians |-> <<>>,
                           isProcessing |-> before.isProcessing,
                           error |-> NoError,
                           isDataLoaded |-> FALSE]
            /\ Reduced("SET_WEEK") =>
                  state = [uploadedFiles |-> before.uploadedFiles,
                           selectedWeek |-> action.payload,
                           technicians |-> <<>>,
                           isProcessing |-> before.isProcessing,
                           error |-> NoError,
                           isDataLoaded |-> FALSE]
            /\ ~Reduced("SET_TECHNICIANS") =>
                  state.technicians \in {<<>>, before.technicians}
            /\ Reduced("SET_TECHNICIANS") =>
                  /\ state.technicians = action.payload
                  /\ state.isDataLoaded

\* SET_FILES on a state that is processing and shows technicians
C24_Witness ==
    /\ Reduced("SET_FILES")
    /\ call.arg.state.technicians # <<>>
    /\ call.arg.state.isProcessing
    /\ call.arg.state.isDataLoaded
    /\ call.arg.state.error # NoError
    /\ call.arg.state.uploadedFiles # state.uploadedFiles

\* SET_WEEK and SET_TECHNICIANS on such a state
C24_OtherActions ==
    \/ /\ Reduced("SET_WEEK")
       /\ call.arg.state.technicians # <<>>
       /\ call.arg.state.selectedWeek # state.selectedWeek
    \/ /\ Reduced("SET_TECHNICIANS")
       /\ ~call.arg.state.isDataLoaded
       /\ state.technicians # <<>>

-----------------------------------------------------------------------------
(* The app: FileUploader, WeekSelector and AppContent's effect *)

MaxChanges == 2      \* file and week changes the user makes
MaxRuns == 2         \* processFiles runs that are started

\* dispatch of several actions in a row
RECURSIVE DispatchAll(_, _)
DispatchAll(st, actions) ==
    IF actions = <<>> THEN st
    ELSE DispatchAll(appReducer(st, Head(actions)), Tail(actions))

SetFiles(payload) == [type |-> "SET_FILES", payload |-> payload]
SetWeek(payload) == [type |-> "SET_WEEK", payload |-> payload]
SetTechnicians(payload) == [type |-> "SET_TECHNICIANS", payload |-> payload]
SetProcessing(payload) == [type |-> "SET_PROCESSING", payload |-> payload]
SetError(payload) == [type |-> "SET_ERROR", payload |-> payload]
SetDataLoaded(payload) == [type |-> "SET_DATA_LOADED", payload |-> payload]

TextZedRevenue == <<"$", "5", "0", "0">>

\* the files the user has at hand, by name; those named after a source are
\* that source's well-formed file
FileOf ==
    [name \in Sources |-> ExcelFile(<<GoodRow(name)>>)]
    @@ [name \in {"opportunities of Zed"} |->
           ExcelFile(<<OpportunityRow(Str(TextZed), Num(11), Str(DateText(6, 9)),
                                      Str(TextZedRevenue))>>)]
    @@ [name \in {"opportunities without Revenue"} |->
           [ExcelFile(<<GoodRow("opportunities")>>) EXCEPT
               !.headers = AllColumns \ {"Revenue"}]]
    @@ [name \in {"opportunities.csv"} |->
           [ExcelFile(<<GoodRow("opportunities")>>) EXCEPT !.type = "text/csv"]]
    @@ [name \in {"unreadable opportunities"} |-> UnreadableFile]

\* the sources whose file the user changes
ChangedSources == {"opportunities"}

\* what the user can choose for one source
UploadCandidates(s) ==
    IF s = "opportunities"
    THEN {"opportunities", "opportunities of Zed", "opportunities without Revenue",
          "opportunities.csv", "unreadable opportunities"}
    ELSE {s}

\* FileUploader is rendered while !state.isDataLoaded; when it is not, its
\* own state is gone and the next one starts empty
UploaderFiles(st, held) == IF st.isDataLoaded THEN NoFiles ELSE held

\* the errors validateUploadedFiles returns for a file set
RequiredErrors(fs) ==
    LET absent == SelectSeq(SourceOrder, LAMBDA s : fs[s] = "null")
    IN  [i \in 1..Len(absent) |-> Error(absent[i], "is required")]

RECURSIVE FileErrorsFrom(_, _)
FileErrorsFrom(fs, i) ==
    IF i > Len(SourceOrder) THEN <<>>
    ELSE (IF fs[SourceOrder[i]] # "null"
          THEN validateFile(FileOf[fs[SourceOrder[i]]], SourceOrder[i]) ELSE <<>>)
         \o FileErrorsFrom(fs, i + 1)

validateUploadedFilesErrors(fs) == RequiredErrors(fs) \o FileErrorsFrom(fs, 1)

\* what processAndIntegrateFiles settles with for a file set
IntegrationOfParses(parsed) ==
    IF \E s \in Sources : parsed[s].state = "rejected"
    THEN [state |-> "rejected", value |-> NoData]
    ELSE Fulfilled(IntegratedData(parsed["opportunities"].value,
                                  parsed["lineItems"].value,
                                  parsed["jobTimes"].value,
                                  parsed["appointments"].value))

IntegrationOutcome(fs) ==
    IntegrationOfParses([s \in Sources |->
        IF fs[s] # "null" THEN parseFile(s, FileOf[fs[s]]) ELSE Fulfilled(<<>>)])

\* calculateAllTechnicianKPIs on the integrated data and a week
TechnicianKPIsOf(data, week) ==
    calculateAllTechnicianKPIs(EngineOpportunities(data.opportunities),
                               EngineLineItems(data.lineItems),
                               EngineJobTimes(data.jobTimes),
                               EngineAppointments(data.appointments),
                               week.start, week.end)

AllFilesPresent(fs) == \A s \in Sources : fs[s] # "null"

Rerendered(st) ==
    /\ state' = st
    /\ fileStates' = UploaderFiles(st, fileStates)
    /\ effectDue' = TRUE

\* handleFileUpload(fileType, file) up to its await: a file of the wrong
\* type or size is dropped by the uploader alone; another one goes to
\* handleFilesChange with the uploader's other files, and validateAllFiles
\* starts validateUploadedFiles on that set
HandleFileUpload(fileType, file) ==
    /\ ~state.isDataLoaded
    /\ IF ~isValidExcelFile(FileOf[file]) \/ ~isValidFileSize(FileOf[file])
       THEN /\ fileStates' = [fileStates EXCEPT ![fileType] = "null"]
            /\ UNCHANGED <<state, validationErrors, validations, effectDue, changes>>
       ELSE /\ changes < MaxChanges
            /\ changes' = changes + 1
            /\ fileStates' = [fileStates EXCEPT ![fileType] = file]
            /\ state' = appReducer(state, SetFiles(fileStates'))
            /\ validationErrors' = <<>>
            /\ validations' = Append(validations, fileStates')
            /\ effectDue' = TRUE
    /\ UNCHANGED <<inputs, technician, kpis, allKpis, pipelineVars,
                   dataSummary, runs, started>>

\* removeFile(fileType)
RemoveFile(fileType) ==
    /\ ~state.isDataLoaded
    /\ fileStates[fileType] # "null"
    /\ changes < MaxChanges
    /\ changes' = changes + 1
    /\ fileStates' = [fileStates EXCEPT ![fileType] = "null"]
    /\ state' = appReducer(state, SetFiles(fileStates'))
    /\ validationErrors' = <<>>
    /\ effectDue' = TRUE
    /\ UNCHANGED <<inputs, technician, kpis, allKpis, pipelineVars,
                   dataSummary, validations, runs, started>>

ValidationCompleteWith(i, errors) ==
    /\ validationErrors' = errors
    /\ Rerendered(appReducer(state,
           SetError(IF errors # <<>> THEN ErrorOf(errors) ELSE NoError)))
    /\ validations' = SubSeq(validations, 1, i - 1)
                          \o SubSeq(validations, i + 1, Len(validations))
    /\ UNCHANGED <<inputs, technician, kpis, allKpis, pipelineVars,
                   dataSummary, runs, started, changes>>

\* a validateUploadedFiles call settles and validateAllFiles hands its
\* result to handleValidationComplete
ValidationComplete(i) ==
    /\ i \in 1..Len(validations)
    /\ ValidationCompleteWith(i, validateUploadedFilesErrors(validations[i]))

\* handleWeekChange(week), from the WeekSelector, which is rendered while
\* state.isDataLoaded
HandleWeekChange(week) ==
    /\ state.isDataLoaded
    /\ changes < MaxChanges
    /\ changes' = changes + 1
    /\ Rerendered(appReducer(state, SetWeek(week)))
    /\ UNCHANGED <<inputs, technician, kpis, allKpis, pipelineVars,
                   validationErrors, dataSummary, validations, runs, started>>

\* the Dismiss button of the error state
DismissError ==
    /\ ~state.error.null /\ ~state.isProcessing
    /\ Rerendered(appReducer(state, SetError(NoError)))
    /\ UNCHANGED <<inputs, technician, kpis, allKpis, pipelineVars,
                   validationErrors, dataSummary, validations, runs, started,
                   changes>>

\* The effect of AppContent.  Its dependencies hold setProcessing, setError,
\* setTechnicians and setDataLoaded, which useAppActions creates anew on
\* every render, so it runs after every render.  processFiles returns at
\* once unless all four files are there; otherwise it dispatches
\* SET_PROCESSING and SET_ERROR, which re-render the component, and calls
\* processAndIntegrateFiles with the files of this render.
ProcessFiles ==
    /\ effectDue
    /\ IF ~AllFilesPresent(state.uploadedFiles)
       THEN /\ effectDue' = FALSE
            /\ UNCHANGED <<state, runs, started>>
       ELSE /\ started < MaxRuns
            /\ started' = started + 1
            /\ runs' = Append(runs, [files |-> state.uploadedFiles,
                                     week |-> state.selectedWeek])
            /\ state' = DispatchAll(state, <<SetProcessing(TRUE), SetError(NoError)>>)
            /\ effectDue' = TRUE
    /\ UNCHANGED <<inputs, technician, kpis, allKpis, pipelineVars,
                   fileStates, validationErrors, dataSummary, validations,
                   changes>>

Weeks == {FirstWeek, SecondWeek}

\* the file sets with which processFiles goes past its test
CompleteFileSets ==
    {fs \in [Sources -> DOMAIN FileOf] :
        \A s \in Sources : fs[s] \in UploadCandidates(s)
                                /\ isValidExcelFile(FileOf[fs[s]])}

\* what the try block computes from the outcome of processAndIntegrateFiles
\* and the week of the run
RunResultOf(outcome, week) ==
    IF outcome.state = "rejected"
    THEN [rejected |-> TRUE, summary |-> "null", technicianKPIs |-> <<>>]
    ELSE [rejected |-> FALSE,
          summary |-> getDataSummary(outcome.value),
          technicianKPIs |-> TechnicianKPIsOf(outcome.value, week)]

\* the same, tabulated by file set and week
RunResults ==
    {[files |-> fs, week |-> week,
      result |-> RunResultOf(IntegrationOutcome(fs), week)] :
        fs \in CompleteFileSets, week \in Weeks}

RunResult(run) ==
    (CHOOSE r \in RunResults : r.files = run.files /\ r.week = run.week).result

\* the rest of processFiles once processAndIntegrateFiles has settled: the
\* try block, or the catch block, and the finally block
ProcessFilesResumes(i, result) ==
    /\ IF result.rejected
       THEN /\ Rerendered(DispatchAll(state,
                <<SetError(FailedToProcess), SetDataLoaded(FALSE),
                  SetProcessing(FALSE)>>))
            /\ UNCHANGED dataSummary
       ELSE /\ dataSummary' = result.summary
            /\ Rerendered(DispatchAll(state,
                <<SetTechnicians(result.technicianKPIs),
                  SetDataLoaded(TRUE), SetProcessing(FALSE)>>))
    /\ runs' = SubSeq(runs, 1, i - 1) \o SubSeq(runs, i + 1, Len(runs))
    /\ UNCHANGED <<inputs, technician, kpis, allKpis, pipelineVars,
                   validationErrors, validations, started, changes>>

\* the processAndIntegrateFiles call of one run settles; the runs settle
\* in any order
ProcessAndIntegrateSettles(i) ==
    /\ i \in 1..Len(runs)
    /\ ProcessFilesResumes(i, RunResult(runs[i]))

NextAppContent ==
    \/ \E s \in ChangedSources :
          \E file \in UploadCandidates(s) : HandleFileUpload(s, file)
    \/ \E s \in ChangedSources : RemoveFile(s)
    \/ \E i \in 1..MaxChanges : ValidationComplete(i)
    \/ \E week \in Weeks : HandleWeekChange(week)
    \/ DismissError
    \/ ProcessFiles
    \/ \E i \in 1..MaxRuns : ProcessAndIntegrateSettles(i)

\* the app after the user has uploaded three of the four files and their
\* validation has reported that the Opportunities Report is required
ThreeFiles ==
    [s \in Sources |->
        IF s = "opportunities" THEN "null" ELSE s]

InitAppContent ==
    /\ NoRecords
    /\ call = NoCallYet
    /\ files = "none"
    /\ parses = "none"
    /\ integration = "none"
    /\ validation = "none"
    /\ state = [initialState EXCEPT
                   !.uploadedFiles = ThreeFiles,
                   !.error = ErrorOf(validateUploadedFilesErrors(ThreeFiles))]
    /\ fileStates = ThreeFiles
    /\ validationErrors = validateUploadedFilesErrors(ThreeFiles)
    /\ dataSummary = "null"
    /\ validations = <<>>
    /\ runs = <<>>
    /\ effectDue = FALSE
    /\ started = 0
    /\ changes = 0

SpecAppContent == InitAppContent /\ [][NextAppContent]_vars

-----------------------------------------------------------------------------
(* C22, C23, C25, C28 *)

\* no run is in flight and none is about to be started
Quiescent == runs = <<>> /\ ~effectDue

\* the technicians that belong to the files and the week of a state:
\* those of a run on them, none when a file is missing or the run fails
TechniciansFor(st) ==
    IF AllFilesPresent(st.uploadedFiles)
    THEN RunResult([files |-> st.uploadedFiles, week |-> st.selectedWeek]).technicianKPIs
    ELSE <<>>

\* C22: once all started runs have finished, the displayed technicians are
\* the KPIs computed from the most recently accepted file set and week; the
\* result of a superseded run does not survive.
C22_LastWriteWins ==
    Quiescent => state.technicians = TechniciansFor(state)

\* C23: processAndIntegrateFiles is never run on a file set for which
\* validateUploadedFiles reports an error.
C23_ValidationBlocks ==
    \A i \in 1..Len(runs) : validateUploadedFilesErrors(runs[i].files) = <<>>

\* C25: a state update made by a run does not start another run, so no
\* more runs are started than the user made file and week changes.
C25_RunsPerChange == started <= changes

\* C28: while a run is in flight, state.isProcessing is true.
C28_ProcessingWhileRunning == runs # <<>> => state.isProcessing

\* the flag is false in every state that is rendered
C28_NeverProcessing == ~state.isProcessing

\* runs on file sets without validation errors settle, in any order
C23_ValidRuns ==
    /\ started = MaxRuns
    /\ runs = <<>>
    /\ state.technicians # <<>>
    /\ validateUploadedFilesErrors(state.uploadedFiles) = <<>>

-----------------------------------------------------------------------------
(* dateHelpers: getStartOfWeek, getEndOfWeek, getCurrentWeek *)

\* the number of a day within 2025, 1 January being 1
DayOfYear(date) == DaysBeforeMonth[date.month + 1] + date.day

\* date.getDay(): 0 for Sunday; 1 January 2025 is a Wednesday
getDay(date) == (DayOfYear(date) + 2) % 7

\* the month, counted from 0, that holds day k of 2025
MonthOfDay(k) ==
    CHOOSE m \in 0..11 :
        /\ DaysBeforeMonth[m + 1] < k
        /\ m = 11 \/ k <= DaysBeforeMonth[m + 2]

AtDayOfYear(date, k) ==
    [date EXCEPT !.month = MonthOfDay(k),
                 !.day = k - DaysBeforeMonth[MonthOfDay(k) + 1]]

\* new Date(d.setDate(n)): day n of d's month, counted on into the months
\* before and after it; the time of day stays as it is
setDate(date, n) == AtDayOfYear(date, DaysBeforeMonth[date.month + 1] + n)

getStartOfWeek(date) ==
    setDate(date, date.day - getDay(date) + (IF getDay(date) = 0 THEN 0 - 6 ELSE 1))

getEndOfWeek(date) ==
    setDate(date, date.day - getDay(date) + (IF getDay(date) = 0 THEN 0 ELSE 7))

\* getCurrentWeek() when new Date() is now
getCurrentWeek(now) == [start |-> getStartOfWeek(now), end |-> getEndOfWeek(now)]

\* isDateInWeekRange on Date objects, which compare by their time value
isDateInWeek(date, week) ==
    date.valid /\ isDateInWeekRange(Minutes(date), Minutes(week.start), Minutes(week.end))

GetCurrentWeek ==
    /\ call.fn = "none"
    /\ call' = [fn |-> "getCurrentWeek", arg |-> call.arg,
                ret |-> getCurrentWeek(call.arg)]
    /\ UNCHANGED <<inputs, technician, kpis, allKpis, files, parses,
                   integration, validation, appVars>>

\* a record's date is parsed from its cell and tested against the week
IsDateInWeekRange(parsed) ==
    /\ call.fn = "getCurrentWeek"
    /\ ~parsed.threw
    /\ call' = [fn |-> "isDateInWeekRange",
                arg |-> [now |-> call.arg, week |-> call.ret, date |-> parsed.value],
                ret |-> isDateInWeek(parsed.value, call.ret)]
    /\ UNCHANGED <<inputs, technician, kpis, allKpis, files, parses,
                   integration, validation, appVars>>

\* days from Sunday 25 May to Monday 9 June 2025, as month and day
RecordDays ==
    {<<5, d>> : d \in 25..31} \cup {<<6, d>> : d \in 1..9}

\* the Date cells of opportunities, line items and job times
RecordDateTexts == {DateText(md[1], md[2]) : md \in RecordDays}

\* the Scheduled For cells of appointments
RecordDateTimeTexts ==
    {DateTimeText(md[1], md[2], h, m, TextAM) :
        md \in RecordDays, h \in {8, 11}, m \in {0, 59}}

\* the instants at which the current week is asked for: Sunday 1 June,
\* Monday 2 June and Wednesday 4 June 2025 at three times of day
Instants ==
    {[valid |-> TRUE, year |-> 2025, month |-> 5, day |-> d,
      hour |-> t[1], minute |-> t[2]] :
        d \in {1, 2, 4}, t \in {<<0, 0>>, <<10, 30>>, <<23, 59>>}}

NextWeekRange ==
    \/ GetCurrentWeek
    \/ \E text \in RecordDateTexts : IsDateInWeekRange(parseDate(StringCell(text)))
    \/ \E text \in RecordDateTimeTexts :
          IsDateInWeekRange(parseDateTime(StringCell(text)))

InitWeekRange ==
    /\ NoRecords
    /\ \E now \in Instants : call = Calling(now)
    /\ files = "none"
    /\ parses = "none"
    /\ integration = "none"
    /\ validation = "none"
    /\ AppIdle

SpecWeekRange == InitWeekRange /\ [][NextWeekRange]_vars

-----------------------------------------------------------------------------
(* C26 *)

Tested == call.fn = "isDateInWeekRange"

\* days between two dates of 2025, by the calendar
SameDayOrLater(a, b) == DayOfYear(a) >= DayOfYear(b)

\* C26: the week of any instant starts on a Monday and ends on the Sunday
\* six days later, the instant lies between them, and every record dated on
\* a day from that Monday to that Sunday is in the week range.
C26_WeekRange ==
    Tested =>
        LET week == call.arg.week
            now == call.arg.now
            date == call.arg.date
        IN  /\ getDay(week.start) = 1
            /\ getDay(week.end) = 0
            /\ DayOfYear(week.end) = DayOfYear(week.start) + 6
            /\ Minutes(week.start) <= Minutes(now)
            /\ Minutes(now) <= Minutes(week.end)
            /\ (SameDayOrLater(date, week.start) /\ SameDayOrLater(week.end, date))
                   => call.ret

\* what the code does: start and end keep the time of day of the instant,
\* and a record is in the range exactly when its time value lies between
\* them
C26_TimeOfDayKept ==
    Tested =>
        LET week == call.arg.week
            now == call.arg.now
            date == call.arg.date
        IN  /\ getDay(week.start) = 1
            /\ getDay(week.end) = 0
            /\ DayOfYear(week.end) = DayOfYear(week.start) + 6
            /\ week.start.hour = now.hour /\ week.start.minute = now.minute
            /\ week.end.hour = now.hour /\ week.end.minute = now.minute
            /\ call.ret <=> /\ Minutes(week.start) <= Minutes(date)
                            /\ Minutes(date) <= Minutes(week.end)

\* an opportunity dated on the Monday of the week, asked for at 10:30
C26_MondayRecord ==
    /\ Tested
    /\ call.arg.now.hour = 10
    /\ DayOfYear(call.arg.date) = DayOfYear(call.arg.week.start)
    /\ call.arg.date.hour = 0
    /\ ~call.ret

-----------------------------------------------------------------------------
(* C27 *)

\* the records of the four collections that lie in the window
InWindowNames ==
    {opportunities[i].technician : i \in
        {j \in 1..Len(opportunities) :
            isDateInWeekRange(opportunities[j].date, weekStart, weekEnd)}}
    \cup {lineItems[i].technician : i \in
        {j \in 1..Len(lineItems) :
            isDateInWeekRange(lineItems[j].invoiceDate, weekStart, weekEnd)}}
    \cup {jobTimes[i].technician : i \in
        {j \in 1..Len(jobTimes) :
            isDateInWeekRange(jobTimes[j].firstAppointment, weekStart, weekEnd)}}
    \cup {appointments[i].technician : i \in
        {j \in 1..Len(appointments) :
            isDateInWeekRange(appointments[j].scheduledFor, weekStart, weekEnd)}}

\* C27: calculateAllTechnicianKPIs returns an entry only for technicians with
\* at least one record inside [weekStart, weekEnd], hence the empty list
\* when no record lies inside it.
C27_OnlyInWindowTechnicians ==
    CalledAll =>
        /\ \A i \in 1..Len(allKpis) : allKpis[i].technician \in InWindowNames
        /\ InWindowNames = {} => allKpis = <<>>

\* what the code does: an entry for every technician of the collections,
\* all of its values zero when none of the technician's records is in the
\* window
C27_EveryTechnician ==
    CalledAll =>
        /\ {allKpis[i].technician : i \in 1..Len(allKpis)}
             = {AllNames[i] : i \in 1..Len(AllNames)}
        /\ \A i \in 1..Len(allKpis) :
             allKpis[i].technician \notin InWindowNames =>
                 allKpis[i] = [NoKpis EXCEPT !.technician = allKpis[i].technician]

\* records of one technician, all outside the window
C27_OutOfWindow ==
    /\ CalledAll
    /\ Len(AllNames) = 2
    /\ InWindowNames = {}
    /\ Len(allKpis) = 1

-----------------------------------------------------------------------------
(* C29 *)

\* the number a Quantity cell denotes
QuantityOf(cell) == IF cell.type = "number" THEN cell.num ELSE ToNumber(cell)

NotPositive(q) == ~IsNaN(q) /\ q.num <= 0

LineItemRowsOf(file) == file.rows

\* C29: a line-item row whose Quantity cell denotes zero or a negative
\* number, as a number or as text, does not appear in the cleaned line
\* items.
C29_PositiveQuantity ==
    Delivered =>
        \A i \in 1..Len(LineItemRowsOf(files["lineItems"])) :
            NotPositive(QuantityOf(LineItemRowsOf(files["lineItems"])[i].Quantity)) =>
                \A j \in 1..Len(integration.value.lineItems) :
                    integration.value.lineItems[j] # parses["lineItems"].value[i]

\* what the code does: rows with a native number that is not positive and
\* rows with a negative text are dropped, and a row with the text "0" is
\* delivered with quantity 1
C29_ZeroTextBecomesOne ==
    Delivered =>
        \A i \in 1..Len(LineItemRowsOf(files["lineItems"])) :
            LET cell == LineItemRowsOf(files["lineItems"])[i].Quantity
                parsed == parses["lineItems"].value[i]
                kept == \E j \in 1..Len(integration.value.lineItems) :
                            integration.value.lineItems[j] = parsed
            IN  /\ cell.type = "number" /\ NotPositive(cell.num) => ~kept
                /\ cell = Str(TextMinus5) => ~kept
                /\ cell = Str(TextZero) => parsed.quantity = Number(1) /\ kept

\* a file whose rows have the quantities "0" and 0
C29_ZeroRows ==
    /\ Delivered
    /\ Len(files["lineItems"].rows) = 2
    /\ files["lineItems"].rows[1].Quantity = Str(TextZero)
    /\ files["lineItems"].rows[2].Quantity = Num(0)
    /\ Len(integration.value.lineItems) = 1

-----------------------------------------------------------------------------
(* C30 *)

NonEmptyName(ret) ==
    /\ ~ret.threw
    /\ ret.value.type = "string"
    /\ ret.value.text # <<>>

\* C30: normalizeTechnicianName returns a string that is not empty for
\* every input, and normalizing its result again returns the same result.
C30_NeverEmpty ==
    Normalized =>
        /\ NonEmptyName(call.ret)
        /\ normalizeTechnicianName(call.ret.value) = call.ret

\* what the code does: the same for null, undefined, the empty string and
\* every name with a word in it that is not an inherited property of the
\* table; a name of white space only is returned as the empty string
C30_BlankBecomesEmpty ==
    Normalized =>
        IF Falsy(call.arg) \/ (Words(call.arg.text) # <<>>
                                /\ JoinWords(Words(call.arg.text)) \notin InheritedKeys)
        THEN /\ NonEmptyName(call.ret)
             /\ normalizeTechnicianName(call.ret.value) = call.ret
        ELSE IF Words(call.arg.text) = <<>>
        THEN call.ret = Return(StringCell(<<>>))
        ELSE call.ret.value.type = "function"

\* a name of two spaces has been normalized
C30_BlankName ==
    /\ Normalized
    /\ call.arg = StringCell(<<" ", " ">>)

====
